---- MODULE Spec2Model ----
(***************************************************************************)
(* A model of pmuens/ctk-go: the ChaCha20 stream cipher, the Poly1305      *)
(* one-time authenticator and the ChaCha20-Poly1305 AEAD construction.     *)
(*                                                                         *)
(* A uint32 word is the pair <<lo, hi>> of its 16-bit halves (TLC's        *)
(* integers are 32-bit signed); a byte slice is a sequence of 0..255; a    *)
(* big.Int is the little-endian sequence of its base-256 digits without    *)
(* leading zero digits (zero is << >>).                                    *)
(***************************************************************************)
EXTENDS Integers, Sequences, FiniteSets, TLC

----------------------------------------------------------------------------
(* Bounds of the model.                                                    *)

\* Calls made on one ChaCha20 instance.
MaxCalls == 2

\* GenerateTag calls made on one Poly1305 instance.
MaxTags == 2

\* quarterRound calls made on one state.
MaxQuarterRounds == 2

----------------------------------------------------------------------------
(* uint32 and byte arithmetic (Go's +, ^, >>, bits.RotateLeft32, byte()).  *)

Half == 65536

Pow2(n) == IF n = 0 THEN 1 ELSE IF n = 1 THEN 2 ELSE IF n = 2 THEN 4
           ELSE IF n = 4 THEN 16 ELSE IF n = 7 THEN 128 ELSE IF n = 8 THEN 256
           ELSE IF n = 9 THEN 512 ELSE IF n = 12 THEN 4096 ELSE 2 ^ n

\* XOR of two bits, two nibbles, two bytes; the tables are built once.
XorBit(a, b) == (a + b) % 2

Xor4Fn ==
    [a \in 0..15 |-> [b \in 0..15 |->
        XorBit(a % 2, b % 2)
        + (2 * XorBit((a \div 2) % 2, (b \div 2) % 2))
        + (4 * XorBit((a \div 4) % 2, (b \div 4) % 2))
        + (8 * XorBit(a \div 8, b \div 8))]]

Xor8Fn ==
    [a \in 0..255 |-> [b \in 0..255 |->
        (16 * Xor4Fn[a \div 16][b \div 16]) + Xor4Fn[a % 16][b % 16]]]

\* a + b on bytes, in place of a ^ b.
XorByte_Add(a, b) == (a + b) % 256

\* a ^ b on bytes.
XorByte(a, b) == Xor8Fn[a][b]

Xor16(a, b) ==
    (256 * Xor8Fn[a \div 256][b \div 256]) + Xor8Fn[a % 256][b % 256]

\* The uint32 with the given halves.
W(hi, lo) == <<lo, hi>>
Lo(w) == w[1]
Hi(w) == w[2]

\* The uint32 of a small natural number (below 2^31).
U32(n) == W(n \div Half, n % Half)

\* a + b on uint32: the sum modulo 2^32.
Add32(a, b) ==
    LET lo == Lo(a) + Lo(b)
    IN  W((Hi(a) + Hi(b) + (lo \div Half)) % Half, lo % Half)

\* a ^ b on uint32.
Xor32(a, b) == W(Xor16(Hi(a), Hi(b)), Xor16(Lo(a), Lo(b)))

\* bits.RotateLeft32(a, n) for 0 < n < 16 and for n = 16.
RotateLeft32(a, n) ==
    IF n = 16 THEN W(Lo(a), Hi(a))
    ELSE LET up == Pow2(n)
             dn == Pow2(16 - n)
         IN  W(((Hi(a) * up) % Half) + (Lo(a) \div dn),
               ((Lo(a) * up) % Half) + (Hi(a) \div dn))

\* binary.LittleEndian.Uint32(b[i:i+4]) with i counted from 0.
LittleEndianUint32(b, i) ==
    W(b[i + 3] + (256 * b[i + 4]), b[i + 1] + (256 * b[i + 2]))

\* byte(word >> (8*k)) for k in 0..3.
ByteOf(word, k) ==
    IF k = 0 THEN Lo(word) % 256
    ELSE IF k = 1 THEN Lo(word) \div 256
    ELSE IF k = 2 THEN Hi(word) % 256
    ELSE IF k = 3 THEN Hi(word) \div 256
    ELSE 0

\* The four bytes of a word, least significant first.
WordBytes(word) ==
    <<ByteOf(word, 0), ByteOf(word, 1), ByteOf(word, 2), ByteOf(word, 3)>>

----------------------------------------------------------------------------
(* ChaCha20 (package chacha20).                                            *)

BlockSize == 64

\* quarterRound(a, b, c, d uint32): the four words after the quarter round.
QuarterRoundFn(a, b, c, d) ==
    LET a1 == Add32(a, b)
        d1 == RotateLeft32(Xor32(d, a1), 16)
        c1 == Add32(c, d1)
        b1 == RotateLeft32(Xor32(b, c1), 12)
        a2 == Add32(a1, b1)
        d2 == RotateLeft32(Xor32(d1, a2), 8)
        c2 == Add32(c1, d2)
        b2 == RotateLeft32(Xor32(b1, c2), 7)
    IN  <<a2, b2, c2, d2>>

\* (s *ChaCha20) quarterRound(x, y, z, w int): indices are Go's, from 0.
\* s.state[x] = a; s.state[y] = b; s.state[z] = c; s.state[w] = d
SetWords(state, x, y, z, w, q) ==
    [state EXCEPT ![x + 1] = q[1], ![y + 1] = q[2],
                  ![z + 1] = q[3], ![w + 1] = q[4]]

\* quarterRound storing b in s.state[z] and c in s.state[y].
quarterRound_SwappedStores(state, x, y, z, w) ==
    SetWords(state, x, z, y, w,
             QuarterRoundFn(state[x + 1], state[y + 1],
                            state[z + 1], state[w + 1]))

quarterRound(state, x, y, z, w) ==
    SetWords(state, x, y, z, w,
             QuarterRoundFn(state[x + 1], state[y + 1],
                            state[z + 1], state[w + 1]))

columnRound(state) ==
    quarterRound(quarterRound(quarterRound(quarterRound(state,
        0, 4, 8, 12), 1, 5, 9, 13), 2, 6, 10, 14), 3, 7, 11, 15)

diagonalRound(state) ==
    quarterRound(quarterRound(quarterRound(quarterRound(state,
        0, 5, 10, 15), 1, 6, 11, 12), 2, 7, 8, 13), 3, 4, 9, 14)

doubleRound(state) == diagonalRound(columnRound(state))

\* for range n { s.doubleRound() }: the state after n double rounds.  (A
\* function, so that each round is applied to the value of the one before.)
RoundsFn[state \in Seq(Nat \X Nat), n \in Nat] ==
    IF n = 0 THEN state ELSE RoundsFn[doubleRound(state), n - 1]

Rounds(state, n) == RoundsFn[state, n]

\* The constant "expand 32-byte k".
ChaChaConstant ==
    <<W(24944, 30821), W(13088, 25710), W(31074, 11570), W(27424, 25972)>>

\* initState(key [8]uint32, nonce [3]uint32, counter uint32) [16]uint32
initState(key, nonce, counter) == ChaChaConstant \o key \o <<counter>> \o nonce

\* The permuted state added to itself.
FeedForward_Permuted(state, old_state) ==
    [i \in 1..16 |-> Add32(state[i], state[i])]

\* for i, val := range old_state { s.state[i] += val }
FeedForward(state, old_state) ==
    [i \in 1..16 |-> Add32(state[i], old_state[i])]

\* NewChaCha20(key [32]byte, nonce [12]byte, counter [4]byte)
NewChaCha20(key, nonce, counter) ==
    LET k == [i \in 1..8 |-> LittleEndianUint32(key, 4 * (i - 1))]
        b == LittleEndianUint32(counter, 0)
        n == [i \in 1..3 |-> LittleEndianUint32(nonce, 4 * (i - 1))]
    IN  [counter |-> b, key |-> k, nonce |-> n, state |-> initState(k, n, b)]

\* (s *ChaCha20) CreateBlock(): the instance afterwards.  The state field is
\* rebuilt from key, nonce and counter, permuted by 10 double rounds, added
\* to the rebuilt state word by word, and the counter is incremented
\* (uint32 arithmetic).  The block returned is the state field afterwards.
\* CreateBlock from "old_state := s.state" on, s being the instance with
\* its state field rebuilt.
Permute(s) ==
    [s EXCEPT !.state = FeedForward(Rounds(s.state, 10), s.state),
              !.counter = Add32(s.counter, U32(1))]

CreateBlock(c) ==
    Permute([c EXCEPT !.state = initState(c.key, c.nonce, c.counter)])

\* numBlocks := int(math.Ceil(float64(len(data)) / BlockSize))
NumBlocks(len, size) == (len + size - 1) \div size

\* The i-th block (i from 0) of data cut into blocks of the given size:
\* data[i*size:], or data[i*size:(i+1)*size] when (i+1)*size < len(data).
BlockAt(data, i, size) ==
    IF (i + 1) * size < Len(data)
    THEN SubSeq(data, (i * size) + 1, (i + 1) * size)
    ELSE SubSeq(data, (i * size) + 1, Len(data))

\* len(block) & 0b1111100
NumProcessedBytes(len) == ((len \div 4) % 32) * 4

\* The body of XORWithKeyStream's loop on one block: whole words are XORed
\* four bytes a time while i+4 <= len(block); the bytes left over (fewer
\* than four) are XORed with the low bytes of the next key stream word.
XorBlock(block, keyStream) ==
    LET n == Len(block)
        whole == (n \div 4) * 4
        numProcessedBytes == NumProcessedBytes(n)
    IN  [j \in 1..n |->
            IF j - 1 < whole
            THEN XorByte(block[j],
                         ByteOf(keyStream[((j - 1) \div 4) + 1], (j - 1) % 4))
            ELSE IF numProcessedBytes < n /\ j - 1 >= numProcessedBytes
            THEN XorByte(block[j],
                         ByteOf(keyStream[(numProcessedBytes \div 4) + 1],
                                j - 1 - numProcessedBytes))
            ELSE block[j]]

\* XORWithKeyStream's loop from block i on: c is the instance, result the
\* bytes of the blocks done so far, used the counters CreateBlock ran with.
RECURSIVE XorLoop(_, _, _, _, _, _)

\* One pass of the loop, c1 being the instance after keyStream :=
\* c.CreateBlock() and counter the counter it ran with.
XorPass(c1, counter, data, i, numBlocks, result, used) ==
    XorLoop(c1, data, i + 1, numBlocks,
            result \o XorBlock(BlockAt(data, i, BlockSize), c1.state),
            Append(used, counter))

XorLoop(c, data, i, numBlocks, result, used) ==
    IF i >= numBlocks THEN [cipher |-> c, result |-> result, used |-> used]
    ELSE XorPass(CreateBlock(c), c.counter, data, i, numBlocks, result, used)

\* (c *ChaCha20) XORWithKeyStream(data []byte): the instance afterwards, the
\* bytes returned and the counters of the blocks produced.
XORWithKeyStream(c, data) ==
    XorLoop(c, data, 0, NumBlocks(Len(data), BlockSize), << >>, << >>)

----------------------------------------------------------------------------
(* math/big: a big.Int is the little-endian sequence of its base-256       *)
(* digits, the highest digit non-zero.                                     *)

Max(a, b) == IF a >= b THEN a ELSE b
Min(a, b) == IF a <= b THEN a ELSE b

\* slices.Reverse
Reverse(b) == [i \in 1..Len(b) |-> b[Len(b) + 1 - i]]

\* Drops the high zero digits.
RECURSIVE Normalize(_)
Normalize(b) ==
    IF Len(b) = 0 \/ b[Len(b)] # 0 THEN b
    ELSE Normalize(SubSeq(b, 1, Len(b) - 1))

Digit(a, i) == IF i <= Len(a) THEN a[i] ELSE 0

\* The digits of the number whose i-th base-256 column holds cols[i]
\* (columns may exceed 255), with carry coming in.
RECURSIVE Carry(_, _, _, _, _)
Carry(cols, n, i, carry, acc) ==
    IF i > n
    THEN IF carry = 0 THEN acc
         ELSE Carry(cols, n, i, carry \div 256, Append(acc, carry % 256))
    ELSE LET s == cols[i] + carry
         IN  Carry(cols, n, i + 1, s \div 256, Append(acc, s % 256))

\* new(big.Int).SetBytes(b): b is big-endian.
SetBytes(b) == Normalize(Reverse(b))

\* x.Bytes(): the big-endian bytes of x, none for zero.
Bytes(x) == Reverse(x)

\* new(big.Int).Add(a, b)
BigAdd(a, b) ==
    LET n == Max(Len(a), Len(b))
    IN  Carry([i \in 1..n |-> Digit(a, i) + Digit(b, i)], n, 1, 0, << >>)

\* The sum of a[i] * b[k + 1 - i] over i in lo..hi.
RECURSIVE ColSum(_, _, _, _, _)
ColSum(a, b, k, lo, hi) ==
    IF lo > hi THEN 0
    ELSE (a[lo] * b[k + 1 - lo]) + ColSum(a, b, k, lo + 1, hi)

\* new(big.Int).Mul(a, b)
BigMul(a, b) ==
    IF Len(a) = 0 \/ Len(b) = 0 THEN << >>
    ELSE LET n == Len(a) + Len(b) - 1
         IN  Normalize(Carry(
                 [k \in 1..n |->
                     ColSum(a, b, k, Max(1, k + 1 - Len(b)), Min(Len(a), k))],
                 n, 1, 0, << >>))

\* a >= b, comparing from the highest digit down to digit i.
RECURSIVE GeFrom(_, _, _)
GeFrom(a, b, i) ==
    IF i = 0 THEN TRUE
    ELSE IF a[i] # b[i] THEN a[i] > b[i]
    ELSE GeFrom(a, b, i - 1)

\* a.Cmp(b) >= 0
BigGe(a, b) ==
    IF Len(a) # Len(b) THEN Len(a) > Len(b) ELSE GeFrom(a, b, Len(a))

\* The digits of a - b for a >= b, with the borrow going out of digit i - 1.
RECURSIVE SubFrom(_, _, _, _, _)
SubFrom(a, b, i, borrow, acc) ==
    IF i > Len(a) THEN acc
    ELSE LET d == a[i] - Digit(b, i) - borrow
         IN  SubFrom(a, b, i + 1, IF d < 0 THEN 1 ELSE 0,
                     Append(acc, IF d < 0 THEN d + 256 ELSE d))

BigSub(a, b) == Normalize(SubFrom(a, b, 1, 0, << >>))

----------------------------------------------------------------------------
(* Poly1305 (package poly1305).                                            *)

PolyBlockSize == 16

\* P is the prime 2^130-5 (hex 3fffffffffffffffffffffffffffffffb).
P == <<251>> \o [i \in 1..15 |-> 255] \o <<3>>

\* x / 2^130 and x mod 2^130.
High130(x) ==
    IF Len(x) < 17 THEN << >>
    ELSE Normalize([i \in 1..(Len(x) - 16) |->
             (x[i + 16] \div 4) + (64 * (Digit(x, i + 17) % 4))])

Low130(x) ==
    IF Len(x) < 17 THEN x
    ELSE Normalize(SubSeq(x, 1, 16) \o <<x[17] % 4>>)

\* new(big.Int).Mod(x, P) for x >= 0: since 2^130 = P + 5, the number
\* x = hi * 2^130 + lo is congruent to lo + 5 * hi, which is smaller; below
\* 2^130 at most one P is left to subtract.
RECURSIVE BigModP(_)
BigModP(x) ==
    IF Len(High130(x)) = 0
    THEN IF BigGe(x, P) THEN BigSub(x, P) ELSE x
    ELSE BigModP(BigAdd(Low130(x), BigMul(High130(x), <<5>>)))

\* clamp without the r[4], r[8], r[12] &= 252.
clamp_TopBitsOnly(r) ==
    [i \in 1..16 |-> IF i - 1 \in {3, 7, 11, 15} THEN r[i] % 16 ELSE r[i]]

\* clamp(r [16]byte): indices are Go's, from 0.
clamp(r) ==
    [i \in 1..16 |->
        IF i - 1 \in {3, 7, 11, 15} THEN r[i] % 16              \* r[i] &= 15
        ELSE IF i - 1 \in {4, 8, 12} THEN r[i] - (r[i] % 4)      \* r[i] &= 252
        ELSE r[i]]

\* NewPoly1305(key [32]byte)
NewPoly1305(key) ==
    LET r == clamp(SubSeq(key, 1, 16))
        rBigInt == SetBytes(Reverse(r))
        s == SubSeq(key, 17, 32)
        sBigInt == SetBytes(Reverse(s))
    IN  [r |-> rBigInt, s |-> sBigInt, accum |-> << >>]

\* The 0x01 put behind the block padded with zero bytes to 16.
PolyAbsorb_Padded(accum, r, block) ==
    BigModP(BigMul(
        BigAdd(accum,
               SetBytes(Reverse(block \o [i \in 1..(16 - Len(block)) |-> 0]
                                    \o <<1>>))),
        r))

\* One pass of GenerateTag's loop: the accumulator after block i of data.
PolyAbsorb(accum, r, block) ==
    LET blockCopy == Append(block, 1)
        n == SetBytes(Reverse(blockCopy))
    IN  BigModP(BigMul(BigAdd(accum, n), r))

\* The loop of GenerateTag from block i on; each pass hands the next one
\* the accumulator it computed.
PolyLoop(accum, r, data, i, numBlocks) ==
    LET Loop[a \in Seq(Nat), j \in Nat] ==
            IF j >= numBlocks THEN a
            ELSE Loop[PolyAbsorb(a, r, BlockAt(data, j, PolyBlockSize)), j + 1]
    IN  Loop[accum, i]

\* GenerateTag finishing without the zero bytes prepended.
PolyFinish_NoPad(accum, s) ==
    Reverse(SubSeq(Bytes(BigAdd(accum, s)),
                   Max(1, Len(Bytes(BigAdd(accum, s))) - 15),
                   Len(Bytes(BigAdd(accum, s)))))

\* The [16]byte that finishes GenerateTag: accum + s as big-endian bytes,
\* zero bytes prepended up to 16, the last 16 taken and reversed.
PolyFinish(accum, s) ==
    LET result == Bytes(BigAdd(accum, s))
        padded == IF Len(result) < 16
                  THEN [i \in 1..(16 - Len(result)) |-> 0] \o result
                  ELSE result
        bytes == SubSeq(padded, Len(padded) - 15, Len(padded))
    IN  Reverse(bytes)

\* (p *Poly1305) GenerateTag(data []byte): the instance afterwards and the tag.
Tagged(p, accum) ==
    [poly |-> [p EXCEPT !.accum = accum], tag |-> PolyFinish(accum, p.s)]

\* GenerateTag starting every call from a zero accumulator.
GenerateTag_FromZero(p, data) ==
    Tagged(p, PolyLoop(<< >>, p.r, data, 0,
                       NumBlocks(Len(data), PolyBlockSize)))

GenerateTag(p, data) ==
    Tagged(p, PolyLoop(p.accum, p.r, data, 0,
                       NumBlocks(Len(data), PolyBlockSize)))

----------------------------------------------------------------------------
(* ChaCha20-Poly1305 (package chacha20poly1305).                           *)

ErrInvalidTag == "invalid Poly1305 tag"
Nil == "nil"

\* padTo16Bytes(data []byte)
padTo16Bytes(data) ==
    IF Len(data) % 16 = 0 THEN data
    ELSE data \o [i \in 1..(16 - (Len(data) % 16)) |-> 0]

\* make([]byte, 8) then binary.LittleEndian.PutUint32(b, uint32(n)): the
\* low four bytes hold n, the high four stay zero.
PutUint32In8(n) ==
    <<n % 256, (n \div 256) % 256, (n \div 65536) % 256,
      (n \div 16777216) % 256, 0, 0, 0, 0>>

\* generatePoly1305Input leaving the aad's bytes out of the input.
generatePoly1305Input_NoAad(aad, ciphertext) ==
    padTo16Bytes(ciphertext) \o PutUint32In8(Len(aad))
        \o PutUint32In8(Len(ciphertext))

\* generatePoly1305Input(aad []byte, ciphertext []byte)
generatePoly1305Input(aad, ciphertext) ==
    LET paddedAad == padTo16Bytes(aad)
        paddedCiphertext == padTo16Bytes(ciphertext)
        aadLength == PutUint32In8(Len(aad))
        cipertextLength == PutUint32In8(Len(ciphertext))
    IN  paddedAad \o paddedCiphertext \o aadLength \o cipertextLength

\* poly1305KeyGen(chacha20 *chacha20.ChaCha20): the 32-byte key and the
\* instance after the block was produced on it.
KeyOfBlock(after) ==
    [key |-> [j \in 1..32 |->
                 ByteOf(after.state[((j - 1) \div 4) + 1], (j - 1) % 4)],
     chacha20 |-> after]

\* poly1305KeyGen producing the block on an instance of its own, the one
\* it was given staying at its counter.
poly1305KeyGen_OwnInstance(chacha20) ==
    [KeyOfBlock(CreateBlock(chacha20)) EXCEPT !.chacha20 = chacha20]

poly1305KeyGen(chacha20) == KeyOfBlock(CreateBlock(chacha20))

\* NewChaCha20Poly1305(key [32]byte, nonce [12]byte)
AeadOf(key, nonce, gen) ==
    [key |-> key, nonce |-> nonce,
     chacha20 |-> gen.chacha20, poly1305 |-> NewPoly1305(gen.key)]

NewChaCha20Poly1305(key, nonce) ==
    AeadOf(key, nonce,
           poly1305KeyGen(NewChaCha20(key, nonce, <<0, 0, 0, 0>>)))

\* (c *ChaCha20Poly1305) Encrypt(plaintext, aad): the instance afterwards,
\* the two values returned and the counters of the key stream blocks used.
\* Encrypt's return, x being what XORWithKeyStream(plaintext) gave and g
\* what GenerateTag gave.
Encrypted(c, x, g) ==
    [aead |-> [c EXCEPT !.chacha20 = x.cipher, !.poly1305 = g.poly],
     ciphertext |-> x.result, tag |-> g.tag, used |-> x.used]

\* Encrypt from "poly1305Input := ..." on.
EncryptTag(c, aad, x) ==
    Encrypted(c, x,
              GenerateTag(c.poly1305, generatePoly1305Input(aad, x.result)))

\* Encrypt computing the tag over the plaintext.
Encrypt_TagOverPlaintext(c, plaintext, aad) ==
    Encrypted(c, XORWithKeyStream(c.chacha20, plaintext),
              GenerateTag(c.poly1305, generatePoly1305Input(aad, plaintext)))

Encrypt(c, plaintext, aad) ==
    EncryptTag(c, aad, XORWithKeyStream(c.chacha20, plaintext))

\* (c *ChaCha20Poly1305) Decrypt(ciphertext, aad, tag): the instance
\* afterwards, the two values returned, the tag computed and the counters
\* of the key stream blocks used.
\* Decrypt's return when the tags match, x being what
\* XORWithKeyStream(ciphertext) gave.
Decrypted(c, g, x) ==
    [aead |-> [c EXCEPT !.poly1305 = g.poly, !.chacha20 = x.cipher],
     plaintext |-> x.result, err |-> Nil,
     computedTag |-> g.tag, used |-> x.used]

\* Decrypt running XORWithKeyStream before it compares the tags.
DecryptFirst(c, tag, g, x) ==
    IF tag # g.tag
    THEN [aead |-> [c EXCEPT !.poly1305 = g.poly, !.chacha20 = x.cipher],
          plaintext |-> << >>, err |-> ErrInvalidTag,
          computedTag |-> g.tag, used |-> x.used]
    ELSE Decrypted(c, g, x)

DecryptVerify_DecryptFirst(c, ciphertext, tag, g) ==
    DecryptFirst(c, tag, g, XORWithKeyStream(c.chacha20, ciphertext))

\* Decrypt from "if tag != computedTag" on, g being what GenerateTag gave.
DecryptVerify(c, ciphertext, tag, g) ==
    IF tag # g.tag
    THEN [aead |-> [c EXCEPT !.poly1305 = g.poly],
          plaintext |-> << >>, err |-> ErrInvalidTag,
          computedTag |-> g.tag, used |-> << >>]
    ELSE Decrypted(c, g, XORWithKeyStream(c.chacha20, ciphertext))

Decrypt(c, ciphertext, aad, tag) ==
    DecryptVerify(c, ciphertext, tag,
        GenerateTag(c.poly1305, generatePoly1305Input(aad, ciphertext)))

----------------------------------------------------------------------------
(* The same operations on memory.  The heap is a sequence of arrays; a     *)
(* []byte is a slice header [arr, off, len, cap] into one of them (off     *)
(* from 0).  The operators below make the reads, writes and allocations     *)
(* the code makes, in its order, and return the heap with their result.     *)

Slice(arr, off, len, cap) == [arr |-> arr, off |-> off, len |-> len, cap |-> cap]

\* s[lo:] and s[lo:hi]
SliceFrom(s, lo) == Slice(s.arr, s.off + lo, s.len - lo, s.cap - lo)
SliceRange(s, lo, hi) == Slice(s.arr, s.off + lo, hi - lo, s.cap - lo)

\* The bytes of s.
MemRead(h, s) ==
    IF s.len = 0 THEN << >> ELSE SubSeq(h[s.arr], s.off + 1, s.off + s.len)

\* The heap after bytes are written at index i (from 0) of s and on.
MemStore(h, s, i, bytes) ==
    IF bytes = << >> THEN h
    ELSE [h EXCEPT ![s.arr] =
             [k \in 1..Len(@) |->
                 IF k > s.off + i /\ k <= s.off + i + Len(bytes)
                 THEN bytes[k - (s.off + i)] ELSE @[k]]]

\* make([]byte, len, cap) holding bytes: a new array.
MemMake(h, bytes, cap) ==
    [heap |-> Append(h, bytes \o [k \in 1..(cap - Len(bytes)) |-> 0]),
     slice |-> Slice(Len(h) + 1, 0, Len(bytes), cap)]

\* slices.Clone(s), which is append(s[:0:0], s...): a new array, unless s is
\* empty, when it is s[:0:0].
MemClone(h, s) ==
    IF s.len = 0 THEN [heap |-> h, slice |-> Slice(s.arr, s.off, 0, 0)]
    ELSE MemMake(h, MemRead(h, s), s.len)

\* append(s, bytes...): in place while the capacity lasts, else into a new
\* array holding what s holds.
MemAppend(h, s, bytes) ==
    IF s.len + Len(bytes) <= s.cap
    THEN [heap |-> MemStore(h, s, s.len, bytes),
          slice |-> [s EXCEPT !.len = s.len + Len(bytes)]]
    ELSE MemMake(h, MemRead(h, s) \o bytes, s.len + Len(bytes))

\* slices.Reverse(s)
MemReverse(h, s) == MemStore(h, s, 0, Reverse(MemRead(h, s)))

\* block := s[(i * size):], or s[(i * size):((i + 1) * size)] when that
\* ends before the end of s.
MemBlockAt(s, i, size) ==
    IF (i + 1) * size < s.len THEN SliceRange(s, i * size, (i + 1) * size)
    ELSE SliceFrom(s, i * size)

RECURSIVE XorLoopMem(_, _, _, _, _)

\* One pass of XORWithKeyStream's loop on memory, c1 being the instance
\* after keyStream := c.CreateBlock() and block the slice of result.
XorPassMem(h, c1, result, block, i, numBlocks) ==
    XorLoopMem(MemStore(h, block, 0, XorBlock(MemRead(h, block), c1.state)),
               c1, result, i + 1, numBlocks)

XorLoopMem(h, c, result, i, numBlocks) ==
    IF i >= numBlocks THEN [heap |-> h, cipher |-> c, slice |-> result]
    ELSE XorPassMem(h, CreateBlock(c), result,
                    MemBlockAt(result, i, BlockSize), i, numBlocks)

\* XORWithKeyStream from "numBlocks := ..." on, cl being what
\* slices.Clone(data) gave.
XorInto(c, cl) ==
    XorLoopMem(cl.heap, c, cl.slice, 0, NumBlocks(cl.slice.len, BlockSize))

\* XORWithKeyStream working on data itself.
XORWithKeyStreamMem_NoClone(h, c, data) ==
    XorInto(c, [heap |-> h, slice |-> data])

\* (c *ChaCha20) XORWithKeyStream(data []byte) on memory.
XORWithKeyStreamMem(h, c, data) == XorInto(c, MemClone(h, data))

\* The loop body of GenerateTag on memory, up to n: the heap after
\* blockCopy was made, extended and reversed, and blockCopy.
BlockCopyExtended(ap) ==
    [heap |-> MemReverse(ap.heap, ap.slice), slice |-> ap.slice]

BlockCopyOf(cl) == BlockCopyExtended(MemAppend(cl.heap, cl.slice, <<1>>))

\* The loop body of GenerateTag working on block itself.
BlockCopy_NoClone(h, block) == BlockCopyOf([heap |-> h, slice |-> block])

BlockCopy(h, block) == BlockCopyOf(MemClone(h, block))

\* The accumulator after the pass whose reversed blockCopy is bc.
AbsorbCopy(accum, r, bc) ==
    <<bc.heap,
      BigModP(BigMul(BigAdd(accum, SetBytes(MemRead(bc.heap, bc.slice))), r))>>

\* (p *Poly1305) GenerateTag(data []byte) on memory: the heap and the
\* instance afterwards and the tag, an array.
PolyLoopMem(h, accum, r, data, numBlocks) ==
    LET Loop[hh \in Seq(Seq(Nat)), a \in Seq(Nat), j \in Nat] ==
            IF j >= numBlocks THEN <<hh, a>>
            ELSE LET n == AbsorbCopy(a, r,
                              BlockCopy(hh, MemBlockAt(data, j, PolyBlockSize)))
                 IN  Loop[n[1], n[2], j + 1]
    IN  Loop[h, accum, 0]

TaggedMem(p, ha) ==
    [heap |-> ha[1], poly |-> [p EXCEPT !.accum = ha[2]],
     tag |-> PolyFinish(ha[2], p.s)]

GenerateTagMem(h, p, data) ==
    TaggedMem(p, PolyLoopMem(h, p.accum, p.r, data,
                             NumBlocks(data.len, PolyBlockSize)))

\* padTo16Bytes(data []byte) on memory; cl is slices.Clone(data).
PadClone(cl, toPad) == MemAppend(cl.heap, cl.slice, [k \in 1..toPad |-> 0])

\* padTo16Bytes appending to data itself.
padTo16BytesMem_NoClone(h, data) ==
    IF data.len % 16 = 0 THEN [heap |-> h, slice |-> data]
    ELSE MemAppend(h, data, [k \in 1..(16 - (data.len % 16)) |-> 0])

padTo16BytesMem(h, data) ==
    IF data.len % 16 = 0 THEN [heap |-> h, slice |-> data]
    ELSE PadClone(MemClone(h, data), 16 - (data.len % 16))

\* generatePoly1305Input(aad, ciphertext) on memory.  The four appends go
\* into the array made for result, whose capacity holds them all.
InputAppend(r, s) == MemAppend(r.heap, r.slice, MemRead(r.heap, s))

InputJoined(pa, pc, al, cl, result) ==
    InputAppend(
        InputAppend(InputAppend(InputAppend(result, pa.slice), pc.slice),
                    al.slice),
        cl.slice)

InputLengths(pa, pc, al, cl) ==
    InputJoined(pa, pc, al, cl,
        MemMake(cl.heap, << >>,
                pa.slice.len + pc.slice.len + al.slice.len + cl.slice.len))

InputCiphertextLength(ciphertext, pa, pc, al) ==
    InputLengths(pa, pc, al,
                 MemMake(al.heap, PutUint32In8(ciphertext.len), 8))

InputAadLength(aad, ciphertext, pa, pc) ==
    InputCiphertextLength(ciphertext, pa, pc,
                          MemMake(pc.heap, PutUint32In8(aad.len), 8))

InputPaddedAad(aad, ciphertext, pa) ==
    InputAadLength(aad, ciphertext, pa, padTo16BytesMem(pa.heap, ciphertext))

generatePoly1305InputMem(h, aad, ciphertext) ==
    InputPaddedAad(aad, ciphertext, padTo16BytesMem(h, aad))

\* (c *ChaCha20Poly1305) Encrypt(plaintext, aad) on memory.
EncryptedMem(c, x, g) ==
    [heap |-> g.heap,
     aead |-> [c EXCEPT !.chacha20 = x.cipher, !.poly1305 = g.poly],
     slice |-> x.slice, tag |-> g.tag, err |-> Nil]

EncryptInputMem(c, x, in) ==
    EncryptedMem(c, x, GenerateTagMem(in.heap, c.poly1305, in.slice))

EncryptTagMem(c, aad, x) ==
    EncryptInputMem(c, x, generatePoly1305InputMem(x.heap, aad, x.slice))

EncryptMem(h, c, plaintext, aad) ==
    EncryptTagMem(c, aad, XORWithKeyStreamMem(h, c.chacha20, plaintext))

\* (c *ChaCha20Poly1305) Decrypt(ciphertext, aad, tag) on memory; a
\* rejected call returns []byte{}, a slice of no array.
DecryptedMem(c, g, x) ==
    [heap |-> x.heap,
     aead |-> [c EXCEPT !.poly1305 = g.poly, !.chacha20 = x.cipher],
     slice |-> x.slice, tag |-> g.tag, err |-> Nil]

DecryptVerifyMem(c, ciphertext, tag, g) ==
    IF tag # g.tag
    THEN [heap |-> g.heap, aead |-> [c EXCEPT !.poly1305 = g.poly],
          slice |-> Slice(0, 0, 0, 0), tag |-> g.tag, err |-> ErrInvalidTag]
    ELSE DecryptedMem(c, g, XORWithKeyStreamMem(g.heap, c.chacha20, ciphertext))

DecryptInputMem(c, ciphertext, tag, in) ==
    DecryptVerifyMem(c, ciphertext, tag,
                     GenerateTagMem(in.heap, c.poly1305, in.slice))

DecryptMem(h, c, ciphertext, aad, tag) ==
    DecryptInputMem(c, ciphertext, tag,
                    generatePoly1305InputMem(h, aad, ciphertext))

----------------------------------------------------------------------------
(* HChaCha20 and XChaCha20 (package xchacha20).                             *)

\* (s *ChaCha20) TwentyRounds(): the state after 10 double rounds, with
\* nothing added to it.
TwentyRounds(c) == Rounds(c.state, 10)

\* Feed-forward added to the 20 rounds.
NewHChaCha20_KeystreamBlock(key, nonce) ==
    [chacha20 |->
        [NewChaCha20(key, SubSeq(nonce, 5, 16), SubSeq(nonce, 1, 4))
            EXCEPT !.state = FeedForward(@, Rounds(@, 10))]]

\* NewHChaCha20(key [32]byte, nonce [16]byte): nonce[0:4] goes where
\* ChaCha20 has its counter, nonce[4:16] is ChaCha20's nonce.
NewHChaCha20(key, nonce) ==
    [chacha20 |-> NewChaCha20(key, SubSeq(nonce, 5, 16), SubSeq(nonce, 1, 4))]

\* The bytes of four words, each little-endian.
RowBytes(row) ==
    WordBytes(row[1]) \o WordBytes(row[2]) \o WordBytes(row[3])
        \o WordBytes(row[4])

\* GenerateSubKey from "firstRow := state[0:4]" on.
SubKeyOfState(state) ==
    RowBytes(SubSeq(state, 1, 4)) \o RowBytes(SubSeq(state, 13, 16))

\* The second row taken for the last one.
GenerateSubKey_SecondRow(h) ==
    SubKeyOfState(
        [i \in 1..16 |-> IF i > 12 THEN TwentyRounds(h.chacha20)[i - 8]
                         ELSE TwentyRounds(h.chacha20)[i]])

\* (h *HChaCha20) GenerateSubKey() [32]byte
GenerateSubKey(h) == SubKeyOfState(TwentyRounds(h.chacha20))

\* The last 12 bytes of the nonce taken as the ChaCha20 nonce.
NewXChaCha20_NoPrefix(key, nonce, counter) ==
    [chacha20 |->
        NewChaCha20(GenerateSubKey(NewHChaCha20(key, SubSeq(nonce, 1, 16))),
                    SubSeq(nonce, 13, 24), counter)]

\* NewXChaCha20(key [32]byte, nonce [24]byte, counter [4]byte)
NewXChaCha20(key, nonce, counter) ==
    [chacha20 |->
        NewChaCha20(GenerateSubKey(NewHChaCha20(key, SubSeq(nonce, 1, 16))),
                    <<0, 0, 0, 0>> \o SubSeq(nonce, 17, 24), counter)]

\* (x *XChaCha20) XORWithKeyStream(data): r is what
\* x.chacha20.XORWithKeyStream(data) gave.
XDelegated(r) ==
    [cipher |-> [chacha20 |-> r.cipher], result |-> r.result,
     used |-> r.used]

XChaCha20XORWithKeyStream(x, data) ==
    XDelegated(XORWithKeyStream(x.chacha20, data))

----------------------------------------------------------------------------
(* XChaCha20-Poly1305 (package xchacha20poly1305).                          *)

\* (x *XChaCha20) CreateBlock(): one block of the wrapped cipher, and the
\* instance afterwards.
XChaCha20CreateBlock(x) ==
    [cipher |-> [chacha20 |-> CreateBlock(x.chacha20)],
     block |-> CreateBlock(x.chacha20).state]

\* chacha20poly1305.Poly1305KeyGen(block): the first 32 bytes of the block.
Poly1305KeyGen(block) ==
    [j \in 1..32 |-> ByteOf(block[((j - 1) \div 4) + 1], (j - 1) % 4)]

\* chacha20poly1305.GeneratePoly1305Input(aad, ciphertext)
GeneratePoly1305Input(aad, ciphertext) == generatePoly1305Input(aad, ciphertext)

\* NewXChaCha20Poly1305 from "polyKey := ..." on, first being what
\* xchacha20.CreateBlock() gave.
XAeadOf(first) ==
    [xchacha20 |-> first.cipher,
     poly1305 |-> NewPoly1305(Poly1305KeyGen(first.block))]

\* NewXChaCha20Poly1305 with the counter set to 1.
NewXChaCha20Poly1305_CounterOne(key, nonce) ==
    XAeadOf(XChaCha20CreateBlock(NewXChaCha20(key, nonce, <<1, 0, 0, 0>>)))

\* NewXChaCha20Poly1305(key [32]byte, nonce [24]byte)
NewXChaCha20Poly1305(key, nonce) ==
    XAeadOf(XChaCha20CreateBlock(NewXChaCha20(key, nonce, <<0, 0, 0, 0>>)))

\* (x *XChaCha20Poly1305) Encrypt(plaintext, aad): the instance afterwards,
\* the two values returned and the counters of the key stream blocks used;
\* c is what XORWithKeyStream(plaintext) gave and g what GenerateTag gave.
XEncrypted(x, c, g) ==
    [aead |-> [x EXCEPT !.xchacha20 = c.cipher, !.poly1305 = g.poly],
     ciphertext |-> c.result, tag |-> g.tag, used |-> c.used]

XEncryptTag(x, aad, c) ==
    XEncrypted(x, c,
        GenerateTag(x.poly1305, GeneratePoly1305Input(aad, c.result)))

XChaCha20Poly1305Encrypt(x, plaintext, aad) ==
    XEncryptTag(x, aad, XChaCha20XORWithKeyStream(x.xchacha20, plaintext))

\* (x *XChaCha20Poly1305) Decrypt(ciphertext, aad, tag), likewise.
XDecrypted(x, g, c) ==
    [aead |-> [x EXCEPT !.poly1305 = g.poly, !.xchacha20 = c.cipher],
     plaintext |-> c.result, err |-> Nil, computedTag |-> g.tag,
     used |-> c.used]

XDecryptVerify(x, ciphertext, tag, g) ==
    IF tag # g.tag
    THEN [aead |-> [x EXCEPT !.poly1305 = g.poly],
          plaintext |-> << >>, err |-> ErrInvalidTag,
          computedTag |-> g.tag, used |-> << >>]
    ELSE XDecrypted(x, g, XChaCha20XORWithKeyStream(x.xchacha20, ciphertext))

XChaCha20Poly1305Decrypt(x, ciphertext, aad, tag) ==
    XDecryptVerify(x, ciphertext, tag,
        GenerateTag(x.poly1305, GeneratePoly1305Input(aad, ciphertext)))

----------------------------------------------------------------------------
(* generatePoly1305Input on slices of any length an int holds.  A slice is  *)
(* given as runs <<byte, count>>, count bytes of that value each, with      *)
(* count and every length a number in base-256 digits, least significant    *)
(* first (len is a 64-bit int; none of the sums below leaves its range).    *)

Run(byte, count) == [byte |-> byte, count |-> count]

\* len(data)
RECURSIVE LenRuns(_)
LenRuns(data) ==
    IF data = << >> THEN << >>
    ELSE BigAdd(data[1].count, LenRuns(Tail(data)))

\* The bytes given one by one.
RunsOfBytes(bytes) == [i \in 1..Len(bytes) |-> Run(bytes[i], <<1>>)]

\* binary.LittleEndian.PutUint32(make([]byte, 8), uint32(n)): uint32 keeps
\* the low 32 bits of n; bytes 4..7 stay 0.
PutUint32OfLen(n) ==
    [i \in 1..8 |-> IF i <= 4 THEN Digit(n, i) ELSE 0]

\* All 64 bits of n written.
PutUint64OfLen(n) == [i \in 1..8 |-> Digit(n, i)]

\* padTo16Bytes(data), m being len(data) % 16.
PaddedRuns(data, m) ==
    IF m = 0 THEN data ELSE data \o <<Run(0, <<16 - m>>)>>

padTo16BytesRuns(data) == PaddedRuns(data, Digit(LenRuns(data), 1) % 16)

\* generatePoly1305Input writing the lengths with PutUint64.
generatePoly1305InputRuns_Uint64(aad, ciphertext) ==
    padTo16BytesRuns(aad) \o padTo16BytesRuns(ciphertext)
        \o RunsOfBytes(PutUint64OfLen(LenRuns(aad)))
        \o RunsOfBytes(PutUint64OfLen(LenRuns(ciphertext)))

\* generatePoly1305Input(aad, ciphertext)
generatePoly1305InputRuns(aad, ciphertext) ==
    padTo16BytesRuns(aad) \o padTo16BytesRuns(ciphertext)
        \o RunsOfBytes(PutUint32OfLen(LenRuns(aad)))
        \o RunsOfBytes(PutUint32OfLen(LenRuns(ciphertext)))

----------------------------------------------------------------------------
(* The callers: what the model hands to the library.                       *)

Zeros(n) == [i \in 1..n |-> 0]

\* Keys: all zero, and 00 01 .. 1f.
KeySet == {Zeros(32), [i \in 1..32 |-> i - 1]}

\* The 12-byte nonce 00 00 00 00 00 00 00 4a 00 00 00 00.
NonceSet == {[i \in 1..12 |-> IF i = 8 THEN 74 ELSE 0]}

\* Initial counters 0, 1, 2^32-2 and 2^32-1, little-endian.
CounterSet ==
    {<<0, 0, 0, 0>>, <<1, 0, 0, 0>>, <<254, 255, 255, 255>>,
     <<255, 255, 255, 255>>}

\* A data slice of n bytes.
Pattern(n) == [i \in 1..n |-> ((i * 37) + 11) % 256]

\* Data for XORWithKeyStream: empty, less than a word, a word and a byte, a
\* whole block, two blocks and two bytes.
DataSet == {Pattern(n) : n \in {0, 3, 5, 64, 130}}

----------------------------------------------------------------------------
VARIABLES
    chaArgs,    \* the key, nonce and counter bytes given to NewChaCha20
    cha,        \* the *ChaCha20 instance
    chaCalls,   \* calls made on cha so far
    chaProduced,\* key stream blocks cha produced so far
    chaLast,    \* the last call on cha: its arguments and what it returned
    echo,       \* <<bytes>>: chaLast.out run through a fresh instance
    aeadArgs,   \* the key and nonce given to NewChaCha20Poly1305
    sender,     \* the *ChaCha20Poly1305 instance that encrypts
    receiver,   \* the *ChaCha20Poly1305 instance that decrypts
    sent,       \* <<r>>: the Encrypt call made on sender
    got,        \* <<r>>: the Decrypt call made on receiver
    polyKey,    \* the key given to NewPoly1305
    poly,       \* the *Poly1305 instance
    polyLog,    \* the messages GenerateTag was called with, in order
    polyTag,    \* the tag the last GenerateTag returned
    raceArgs,   \* the key, nonce and counter of the shared instance
    sync,       \* TRUE when the callers serialise their calls (a mutex)
    shared,     \* the *ChaCha20 instance two goroutines call CreateBlock on
    pc,         \* where each goroutine is in its CreateBlock call
    local,      \* each goroutine's locals
    mem,        \* the heap: the bytes of every allocated array, by array
    memArgs,    \* the slices the caller passes in and the key material
    memLast,    \* the call made on these slices: what it returned
    xArgs,      \* the key, 24-byte nonce and counter given to NewXChaCha20
    xcha,       \* the *XChaCha20 instance
    xLog,       \* the data given to xcha so far and what it returned, in order
    xCalls,     \* calls made on xcha so far
    xLast,      \* the last call of the xchacha20 package and what it returned
    xaArgs,     \* the key and 24-byte nonce given to NewXChaCha20Poly1305
    xaSender,   \* the *XChaCha20Poly1305 instance that encrypts
    xaReceiver, \* the *XChaCha20Poly1305 instance that decrypts
    xaSent,     \* <<r>>: the Encrypt call made on xaSender
    xaGot,      \* <<r>>: the Decrypt call made on xaReceiver
    qrState,    \* the state field of a ChaCha instance
    qrSteps,    \* quarter rounds applied to it so far
    qrLast,     \* the last quarter round: its indices and the state before
    layoutArgs, \* the aad and ciphertext given to generatePoly1305Input
    layoutOut,  \* <<r>>: what generatePoly1305Input returned
    reuseArgs,  \* the key and nonce given to NewChaCha20Poly1305
    reuse,      \* the one *ChaCha20Poly1305 instance every call is made on
    reuseLog    \* the Encrypt and Decrypt calls made on it, in order

chaVars == <<chaArgs, cha, chaCalls, chaProduced, chaLast, echo>>
aeadVars == <<aeadArgs, sender, receiver, sent, got>>
polyVars == <<polyKey, poly, polyLog, polyTag>>
raceVars == <<raceArgs, sync, shared, pc, local>>

memVars == <<mem, memArgs, memLast>>
xVars == <<xArgs, xcha, xLog, xCalls, xLast>>
xaVars == <<xaArgs, xaSender, xaReceiver, xaSent, xaGot>>
qrVars == <<qrState, qrSteps, qrLast>>
layoutVars == <<layoutArgs, layoutOut>>
reuseVars == <<reuseArgs, reuse, reuseLog>>

vars == <<chaVars, aeadVars, polyVars, raceVars, memVars, xVars, xaVars,
          qrVars, layoutVars, reuseVars>>

\* The variables of the other specifications stay as they are.
Unused == << >>
ChaIdle ==
    /\ chaArgs = Unused
    /\ cha = Unused
    /\ chaCalls = Unused
    /\ chaProduced = Unused
    /\ chaLast = Unused
    /\ echo = Unused
AeadIdle ==
    /\ aeadArgs = Unused
    /\ sender = Unused
    /\ receiver = Unused
    /\ sent = Unused
    /\ got = Unused
PolyIdle ==
    /\ polyKey = Unused
    /\ poly = Unused
    /\ polyLog = Unused
    /\ polyTag = Unused
RaceIdle ==
    /\ raceArgs = Unused
    /\ sync = Unused
    /\ shared = Unused
    /\ pc = Unused
    /\ local = Unused
MemIdle ==
    /\ mem = Unused
    /\ memArgs = Unused
    /\ memLast = Unused
XIdle ==
    /\ xArgs = Unused
    /\ xcha = Unused
    /\ xLog = Unused
    /\ xCalls = Unused
    /\ xLast = Unused
XaIdle ==
    /\ xaArgs = Unused
    /\ xaSender = Unused
    /\ xaReceiver = Unused
    /\ xaSent = Unused
    /\ xaGot = Unused
QrIdle ==
    /\ qrState = Unused
    /\ qrSteps = Unused
    /\ qrLast = Unused
LayoutIdle ==
    /\ layoutArgs = Unused
    /\ layoutOut = Unused
ReuseIdle ==
    /\ reuseArgs = Unused
    /\ reuse = Unused
    /\ reuseLog = Unused

(* ChaSpec: one ChaCha20 instance, any sequence of CreateBlock and          *)
(* XORWithKeyStream calls on it, and a second, fresh instance that          *)
(* processes what the first returned.                                       *)

ChaInit ==
    /\ chaArgs \in [key : KeySet, nonce : NonceSet, counter : CounterSet]
    /\ cha = NewChaCha20(chaArgs.key, chaArgs.nonce, chaArgs.counter)
    /\ chaCalls = 0
    /\ chaProduced = 0
    /\ chaLast = [op |-> "NewChaCha20", before |-> cha.counter,
                  data |-> << >>, out |-> << >>, block |-> << >>,
                  used |-> << >>, err |-> Nil]
    /\ echo = << >>
    /\ AeadIdle
    /\ PolyIdle
    /\ RaceIdle
    /\ MemIdle
    /\ XIdle
    /\ XaIdle
    /\ QrIdle
    /\ LayoutIdle
    /\ ReuseIdle

\* block := cha.CreateBlock()
ChaCreateBlock ==
    /\ chaCalls < MaxCalls
    /\ cha' = CreateBlock(cha)
    /\ chaCalls' = chaCalls + 1
    /\ chaProduced' = chaProduced + 1
    /\ chaLast' = [op |-> "CreateBlock", before |-> cha.counter,
                   data |-> << >>, out |-> << >>, block |-> cha'.state,
                   used |-> <<cha.counter>>, err |-> Nil]
    /\ echo' = << >>
    /\ UNCHANGED <<chaArgs, aeadVars, polyVars, raceVars,
                   memVars, xVars, xaVars, qrVars, layoutVars, reuseVars>>

\* What a call of XORWithKeyStream(data) that gave x leaves behind.
ChaReturned(data, x) ==
    /\ cha' = x.cipher
    /\ chaLast' = [op |-> "XORWithKeyStream", before |-> cha.counter,
                   data |-> data, out |-> x.result, block |-> << >>,
                   used |-> x.used, err |-> Nil]
    /\ chaProduced' = chaProduced + Len(x.used)

\* out := cha.XORWithKeyStream(data)
ChaXORWithKeyStream ==
    /\ chaCalls < MaxCalls
    /\ \E data \in DataSet : ChaReturned(data, XORWithKeyStream(cha, data))
    /\ chaCalls' = chaCalls + 1
    /\ echo' = << >>
    /\ UNCHANGED <<chaArgs, aeadVars, polyVars, raceVars,
                   memVars, xVars, xaVars, qrVars, layoutVars, reuseVars>>

\* NewChaCha20(key, nonce, counter).XORWithKeyStream(out), the counter being
\* the one cha had when it produced out.
ChaEcho ==
    /\ chaLast.op = "XORWithKeyStream"
    /\ echo = << >>
    /\ echo' = <<XORWithKeyStream(
                     NewChaCha20(chaArgs.key, chaArgs.nonce,
                                 WordBytes(chaLast.before)),
                     chaLast.out).result>>
    /\ UNCHANGED <<chaArgs, cha, chaCalls, chaProduced, chaLast, aeadVars, polyVars,
                   raceVars,
                   memVars, xVars, xaVars, qrVars, layoutVars, reuseVars>>

ChaNext == ChaCreateBlock \/ ChaXORWithKeyStream \/ ChaEcho

ChaSpec == ChaInit /\ [][ChaNext]_vars

----------------------------------------------------------------------------
(* AeadSpec: a sender and a receiver, each a fresh ChaCha20Poly1305         *)
(* instance made from the same key and nonce.  The sender encrypts one      *)
(* message; the receiver decrypts what was sent, or what was sent with one  *)
(* bit of the ciphertext, of the aad or of the tag flipped.                 *)

\* Plaintexts and associated data of these lengths: both empty, one empty,
\* both short, both one Poly1305 block, one byte over a Poly1305 block,
\* one byte over a ChaCha20 block.
MessageLengths ==
    {<<0, 0>>, <<0, 3>>, <<2, 0>>, <<5, 3>>, <<16, 16>>, <<17, 1>>, <<65, 0>>}

MessageSet ==
    {[plaintext |-> Pattern(l[1]),
      aad |-> [i \in 1..l[2] |-> ((i * 29) + 80) % 256]] : l \in MessageLengths}

\* b with bit k (0..7) of byte i (from 1) flipped.
FlipBit(b, i, k) == [b EXCEPT ![i] = XorByte(@, Pow2(k))]

\* What reaches the receiver: the message as sent, or with one bit flipped.
Tampers(m) ==
    {<<"none", 0, 0>>}
    \cup {<<"ciphertext", i, k>> : i \in 1..Len(m.ciphertext), k \in 0..7}
    \cup {<<"aad", i, k>> : i \in 1..Len(m.aad), k \in 0..7}
    \cup {<<"tag", i, k>> : i \in 1..16, k \in 0..7}

Tampered(m, t) ==
    [ciphertext |-> IF t[1] = "ciphertext"
                    THEN FlipBit(m.ciphertext, t[2], t[3]) ELSE m.ciphertext,
     aad |-> IF t[1] = "aad" THEN FlipBit(m.aad, t[2], t[3]) ELSE m.aad,
     tag |-> IF t[1] = "tag" THEN FlipBit(m.tag, t[2], t[3]) ELSE m.tag]

AeadInit ==
    /\ aeadArgs \in [key : KeySet, nonce : NonceSet]
    /\ sender = NewChaCha20Poly1305(aeadArgs.key, aeadArgs.nonce)
    /\ receiver = sender
    /\ sent = << >>
    /\ got = << >>
    /\ ChaIdle
    /\ PolyIdle
    /\ RaceIdle
    /\ MemIdle
    /\ XIdle
    /\ XaIdle
    /\ QrIdle
    /\ LayoutIdle
    /\ ReuseIdle

AeadSent(m, e) ==
    /\ sender' = e.aead
    /\ sent' = <<[plaintext |-> m.plaintext, aad |-> m.aad,
                  ciphertext |-> e.ciphertext, tag |-> e.tag,
                  used |-> e.used]>>

\* ciphertext, tag := sender.Encrypt(plaintext, aad)
AeadEncrypt ==
    /\ sent = << >>
    /\ \E m \in MessageSet : AeadSent(m, Encrypt(sender, m.plaintext, m.aad))
    /\ UNCHANGED <<aeadArgs, receiver, got, chaVars, polyVars, raceVars,
                   memVars, xVars, xaVars, qrVars, layoutVars, reuseVars>>

AeadGot(t, in, d) ==
    /\ receiver' = d.aead
    /\ got' = <<[tamper |-> t, ciphertext |-> in.ciphertext, aad |-> in.aad,
                 tag |-> in.tag, plaintext |-> d.plaintext, err |-> d.err,
                 computedTag |-> d.computedTag, used |-> d.used,
                 before |-> receiver]>>

AeadReceive(t, in) ==
    AeadGot(t, in, Decrypt(receiver, in.ciphertext, in.aad, in.tag))

\* plaintext, err := receiver.Decrypt(ciphertext, aad, tag)
AeadDecrypt ==
    /\ sent # << >>
    /\ got = << >>
    /\ \E t \in Tampers(sent[1]) : AeadReceive(t, Tampered(sent[1], t))
    /\ UNCHANGED <<aeadArgs, sender, sent, chaVars, polyVars, raceVars,
                   memVars, xVars, xaVars, qrVars, layoutVars, reuseVars>>

AeadNext == AeadEncrypt \/ AeadDecrypt

AeadSpec == AeadInit /\ [][AeadNext]_vars

----------------------------------------------------------------------------
(* PolySpec: one Poly1305 instance and a caller that calls GenerateTag on   *)
(* it up to MaxTags times.                                                  *)

PolyKeySet ==
    {[i \in 1..32 |-> ((i * 7) + 3) % 256],
     [i \in 1..32 |-> 255],
     [i \in 1..32 |-> IF i = 1 THEN 2 ELSE IF i = 17 THEN 9 ELSE 0]}

\* Messages of no block, of less than a block, of one block, of one block
\* and a byte, of two blocks and of two blocks and a byte.
PolyMessageSet ==
    {Pattern(n) : n \in {0, 1, 15, 16, 17, 32, 33}} \cup {[i \in 1..16 |-> 255]}

PolyInit ==
    /\ polyKey \in PolyKeySet
    /\ poly = NewPoly1305(polyKey)
    /\ polyLog = << >>
    /\ polyTag = << >>
    /\ ChaIdle
    /\ AeadIdle
    /\ RaceIdle
    /\ MemIdle
    /\ XIdle
    /\ XaIdle
    /\ QrIdle
    /\ LayoutIdle
    /\ ReuseIdle

PolyReturned(data, g) ==
    /\ poly' = g.poly
    /\ polyTag' = g.tag
    /\ polyLog' = Append(polyLog, data)

\* tag := poly.GenerateTag(data)
PolyGenerateTag ==
    /\ Len(polyLog) < MaxTags
    /\ \E data \in PolyMessageSet : PolyReturned(data, GenerateTag(poly, data))
    /\ UNCHANGED <<polyKey, chaVars, aeadVars, raceVars,
                   memVars, xVars, xaVars, qrVars, layoutVars, reuseVars>>

PolyNext == PolyGenerateTag

PolySpec == PolyInit /\ [][PolyNext]_vars

----------------------------------------------------------------------------
(* RaceSpec: two goroutines call CreateBlock on one ChaCha20 instance.  A   *)
(* call is the sequence of reads and writes of the instance's fields that   *)
(* CreateBlock makes; the goroutines' steps interleave freely, or, when     *)
(* sync holds, a call starts only while no other call is running.           *)

Goroutines == {1, 2}

RaceCounterSet == {<<0, 0, 0, 0>>, <<255, 255, 0, 0>>}

\* s.state = initState(s.key, s.nonce, s.counter)
StepInitState(s) == [s EXCEPT !.state = initState(s.key, s.nonce, s.counter)]

\* Five of the ten passes of "for range 10 { s.doubleRound() }".
HalfRounds == 5
StepRounds(s) == [s EXCEPT !.state = Rounds(s.state, HalfRounds)]

\* for i, val := range old_state { s.state[i] += val }
StepFeedForward(s, old_state) ==
    [s EXCEPT !.state = FeedForward(s.state, old_state)]

\* The store of "s.counter += 1", tmp being what its load read, without
\* the addition.
StepStoreCounter_NoIncrement(s, tmp) == [s EXCEPT !.counter = tmp]

\* The store of "s.counter += 1", tmp being what its load read.
StepStoreCounter(s, tmp) == [s EXCEPT !.counter = Add32(tmp, U32(1))]

RaceInit ==
    /\ raceArgs \in [key : {[i \in 1..32 |-> i - 1]}, nonce : NonceSet,
                     counter : RaceCounterSet]
    /\ sync \in BOOLEAN
    /\ shared = NewChaCha20(raceArgs.key, raceArgs.nonce, raceArgs.counter)
    /\ pc = [g \in Goroutines |-> "idle"]
    /\ local = [g \in Goroutines |->
                   [ran |-> << >>, old_state |-> << >>, tmp |-> << >>,
                    ret |-> << >>]]
    /\ ChaIdle
    /\ AeadIdle
    /\ PolyIdle
    /\ MemIdle
    /\ XIdle
    /\ XaIdle
    /\ QrIdle
    /\ LayoutIdle
    /\ ReuseIdle

\* CreateBlock is entered and builds the state from the counter it reads.
RaceInitState ==
    /\ \E g \in Goroutines :
          /\ pc[g] = "idle"
          /\ sync => \A h \in Goroutines \ {g} : pc[h] \in {"idle", "done"}
          /\ shared' = StepInitState(shared)
          /\ local' = [local EXCEPT ![g].ran = shared.counter]
          /\ pc' = [pc EXCEPT ![g] = "copy"]
    /\ UNCHANGED <<raceArgs, sync, chaVars, aeadVars, polyVars,
                   memVars, xVars, xaVars, qrVars, layoutVars, reuseVars>>

\* old_state := s.state
RaceCopy ==
    /\ \E g \in Goroutines :
          /\ pc[g] = "copy"
          /\ local' = [local EXCEPT ![g].old_state = shared.state]
          /\ pc' = [pc EXCEPT ![g] = "rounds1"]
    /\ UNCHANGED <<raceArgs, sync, shared, chaVars, aeadVars, polyVars,
                   memVars, xVars, xaVars, qrVars, layoutVars, reuseVars>>

\* The loop of double rounds, in two halves.
RaceRounds ==
    /\ \E g \in Goroutines :
          /\ pc[g] \in {"rounds1", "rounds2"}
          /\ shared' = StepRounds(shared)
          /\ pc' = [pc EXCEPT ![g] = IF pc[g] = "rounds1" THEN "rounds2"
                                      ELSE "add"]
    /\ UNCHANGED <<raceArgs, sync, local, chaVars, aeadVars, polyVars,
                   memVars, xVars, xaVars, qrVars, layoutVars, reuseVars>>

RaceFeedForward ==
    /\ \E g \in Goroutines :
          /\ pc[g] = "add"
          /\ shared' = StepFeedForward(shared, local[g].old_state)
          /\ pc' = [pc EXCEPT ![g] = "load"]
    /\ UNCHANGED <<raceArgs, sync, local, chaVars, aeadVars, polyVars,
                   memVars, xVars, xaVars, qrVars, layoutVars, reuseVars>>

\* The load of "s.counter += 1".
RaceLoadCounter ==
    /\ \E g \in Goroutines :
          /\ pc[g] = "load"
          /\ local' = [local EXCEPT ![g].tmp = shared.counter]
          /\ pc' = [pc EXCEPT ![g] = "store"]
    /\ UNCHANGED <<raceArgs, sync, shared, chaVars, aeadVars, polyVars,
                   memVars, xVars, xaVars, qrVars, layoutVars, reuseVars>>

RaceStoreCounter ==
    /\ \E g \in Goroutines :
          /\ pc[g] = "store"
          /\ shared' = StepStoreCounter(shared, local[g].tmp)
          /\ pc' = [pc EXCEPT ![g] = "return"]
    /\ UNCHANGED <<raceArgs, sync, local, chaVars, aeadVars, polyVars,
                   memVars, xVars, xaVars, qrVars, layoutVars, reuseVars>>

\* return s.state
RaceReturn ==
    /\ \E g \in Goroutines :
          /\ pc[g] = "return"
          /\ local' = [local EXCEPT ![g].ret = shared.state]
          /\ pc' = [pc EXCEPT ![g] = "done"]
    /\ UNCHANGED <<raceArgs, sync, shared, chaVars, aeadVars, polyVars,
                   memVars, xVars, xaVars, qrVars, layoutVars, reuseVars>>

RaceNext ==
    \/ RaceInitState
    \/ RaceCopy
    \/ RaceRounds
    \/ RaceFeedForward
    \/ RaceLoadCounter
    \/ RaceStoreCounter
    \/ RaceReturn

RaceSpec == RaceInit /\ [][RaceNext]_vars

----------------------------------------------------------------------------
(* MemSpec: a caller holds aad and text in memory, either as two slices of  *)
(* one array (aad first, its capacity reaching over text and four spare     *)
(* bytes behind it) or in an array each, and makes one call on them.        *)

MemAadLengths == {0, 3, 16}
MemTextLengths == {0, 5, 16, 64, 70}
MemSpare == <<238, 238, 238, 238>>

MemAadBytes(n) == [i \in 1..n |-> ((i * 29) + 80) % 256]

\* The caller's arrays and its two slices.
MemCaller(shared_, la, lt) ==
    IF shared_
    THEN [arrays |-> <<MemAadBytes(la) \o Pattern(lt) \o MemSpare>>,
          aad |-> Slice(1, 0, la, la + lt + 4),
          text |-> Slice(1, la, lt, lt + 4)]
    ELSE [arrays |-> <<MemAadBytes(la), Pattern(lt)>>,
          aad |-> Slice(1, 0, la, la),
          text |-> Slice(2, 0, lt, lt)]

MemInstances(caller, cipher, aead) ==
    [arrays |-> caller.arrays, aad |-> caller.aad, text |-> caller.text,
     chacha20 |-> cipher, poly1305 |-> aead.poly1305, aead |-> aead]

MemInit ==
    /\ \E sh \in BOOLEAN, la \in MemAadLengths, lt \in MemTextLengths :
          memArgs = MemInstances(MemCaller(sh, la, lt),
                        NewChaCha20(Zeros(32), Zeros(12), <<1, 0, 0, 0>>),
                        NewChaCha20Poly1305([i \in 1..32 |-> i - 1],
                                            Zeros(12)))
    /\ mem = memArgs.arrays
    /\ memLast = [op |-> "none"]
    /\ ChaIdle
    /\ AeadIdle
    /\ PolyIdle
    /\ RaceIdle
    /\ XIdle
    /\ XaIdle
    /\ QrIdle
    /\ LayoutIdle
    /\ ReuseIdle

MemReturned(op, r, tag) ==
    /\ mem' = r.heap
    /\ memLast' = [op |-> op, slice |-> r.slice, out |-> MemRead(r.heap, r.slice),
                   tag |-> r.tag, err |-> r.err, given |-> tag]
    /\ UNCHANGED <<memArgs, chaVars, aeadVars, polyVars, raceVars, xVars,
                   xaVars, qrVars, layoutVars, reuseVars>>

MemXorReturned(r) ==
    MemReturned("XORWithKeyStream", [r EXCEPT !.cipher = Nil] @@
                    [tag |-> << >>, err |-> Nil], << >>)

\* result := chacha20.XORWithKeyStream(text)
MemXORWithKeyStream ==
    /\ memLast.op = "none"
    /\ MemXorReturned(XORWithKeyStreamMem(mem, memArgs.chacha20, memArgs.text))

MemTagReturned(g) ==
    MemReturned("GenerateTag",
                [heap |-> g.heap, slice |-> Slice(0, 0, 0, 0), tag |-> g.tag,
                 err |-> Nil], << >>)

\* tag := poly1305.GenerateTag(text)
MemGenerateTag ==
    /\ memLast.op = "none"
    /\ MemTagReturned(GenerateTagMem(mem, memArgs.poly1305, memArgs.text))

\* ciphertext, tag := aead.Encrypt(text, aad)
MemEncrypt ==
    /\ memLast.op = "none"
    /\ MemReturned("Encrypt",
                   EncryptMem(mem, memArgs.aead, memArgs.text, memArgs.aad),
                   << >>)

\* The tag that verifies for aad and text on the caller's instance.
MemValidTag ==
    GenerateTag(memArgs.aead.poly1305,
        generatePoly1305Input(MemRead(mem, memArgs.aad),
                              MemRead(mem, memArgs.text))).tag

\* plaintext, err := aead.Decrypt(text, aad, tag), with the tag that
\* verifies or with another.
MemDecrypt ==
    /\ memLast.op = "none"
    /\ \E tag \in {MemValidTag, Zeros(16)} :
          MemReturned("Decrypt",
              DecryptMem(mem, memArgs.aead, memArgs.text, memArgs.aad, tag),
              tag)

MemNext ==
    \/ MemXORWithKeyStream
    \/ MemGenerateTag
    \/ MemEncrypt
    \/ MemDecrypt

MemSpec == MemInit /\ [][MemNext]_vars

----------------------------------------------------------------------------
(* XSpec: one XChaCha20 instance and any sequence of XORWithKeyStream      *)
(* calls on it; besides, HChaCha20 instances that give their subkey.        *)

\* 16-byte HChaCha20 nonces: all zero, and
\* 00 00 00 09 00 00 00 4a 00 00 00 00 31 41 59 27.
HNonceSet ==
    {Zeros(16), <<0, 0, 0, 9, 0, 0, 0, 74, 0, 0, 0, 0, 49, 65, 89, 39>>}

\* 24-byte nonces: all zero, and the second of the above followed by
\* 01 02 .. 08.
XNonceSet ==
    {Zeros(24),
     <<0, 0, 0, 9, 0, 0, 0, 74, 0, 0, 0, 0, 49, 65, 89, 39>>
         \o [i \in 1..8 |-> i]}

\* Initial counters 1 and 2^32-1, little-endian.
XCounterSet == {<<1, 0, 0, 0>>, <<255, 255, 255, 255>>}

\* Data for XORWithKeyStream: empty, a word and a byte, two blocks and two
\* bytes.
XDataSet == {Pattern(n) : n \in {0, 5, 130}}

XInit ==
    /\ xArgs \in [key : KeySet, nonce : XNonceSet, counter : XCounterSet]
    /\ xcha = NewXChaCha20(xArgs.key, xArgs.nonce, xArgs.counter)
    /\ xLog = << >>
    /\ xCalls = 0
    /\ xLast = [op |-> "NewXChaCha20", nonce |-> xArgs.nonce, out |-> << >>]
    /\ ChaIdle
    /\ AeadIdle
    /\ PolyIdle
    /\ RaceIdle
    /\ MemIdle
    /\ XaIdle
    /\ QrIdle
    /\ LayoutIdle
    /\ ReuseIdle

\* What a call of xcha.XORWithKeyStream(data) that gave r leaves behind.
XReturned(data, r) ==
    /\ xcha' = r.cipher
    /\ xLog' = Append(xLog, [data |-> data, out |-> r.result])
    /\ xLast' = [op |-> "XORWithKeyStream", nonce |-> xArgs.nonce,
                 out |-> r.result]

\* out := xcha.XORWithKeyStream(data)
XXORWithKeyStream ==
    /\ xCalls < MaxCalls
    /\ \E data \in XDataSet :
          XReturned(data, XChaCha20XORWithKeyStream(xcha, data))
    /\ xCalls' = xCalls + 1
    /\ UNCHANGED <<xArgs, chaVars, aeadVars, polyVars, raceVars, memVars,
                   xaVars, qrVars, layoutVars, reuseVars>>

\* out := NewHChaCha20(key, nonce).GenerateSubKey()
XGenerateSubKey ==
    /\ \E nonce \in HNonceSet :
          xLast' = [op |-> "GenerateSubKey", nonce |-> nonce,
                    out |-> GenerateSubKey(NewHChaCha20(xArgs.key, nonce))]
    /\ UNCHANGED <<xArgs, xcha, xLog, xCalls, chaVars, aeadVars, polyVars,
                   raceVars, memVars, xaVars, qrVars, layoutVars, reuseVars>>

XNext == XXORWithKeyStream \/ XGenerateSubKey

XSpec == XInit /\ [][XNext]_vars

----------------------------------------------------------------------------
(* XAeadSpec: a sender and a receiver, each a fresh XChaCha20Poly1305       *)
(* instance made from the same key and nonce.  The sender encrypts one      *)
(* message; the receiver decrypts what was sent, or what was sent with one  *)
(* bit flipped.                                                             *)

\* As Tampers, the flipped bit being the lowest of the first byte or the
\* highest of the last byte.
XaTampers(m) ==
    {t \in Tampers(m) :
        \/ t[1] = "none"
        \/ t[2] = 1 /\ t[3] = 0
        \/ t[3] = 7 /\ t[2] = (IF t[1] = "ciphertext" THEN Len(m.ciphertext)
                                ELSE IF t[1] = "aad" THEN Len(m.aad)
                                ELSE 16)}

XAeadInit ==
    /\ xaArgs \in [key : KeySet, nonce : XNonceSet]
    /\ xaSender = NewXChaCha20Poly1305(xaArgs.key, xaArgs.nonce)
    /\ xaReceiver = xaSender
    /\ xaSent = << >>
    /\ xaGot = << >>
    /\ ChaIdle
    /\ AeadIdle
    /\ PolyIdle
    /\ RaceIdle
    /\ MemIdle
    /\ XIdle
    /\ QrIdle
    /\ LayoutIdle
    /\ ReuseIdle

XaSentBy(m, e) ==
    /\ xaSender' = e.aead
    /\ xaSent' = <<[plaintext |-> m.plaintext, aad |-> m.aad,
                    ciphertext |-> e.ciphertext, tag |-> e.tag,
                    used |-> e.used]>>

\* ciphertext, tag := xaSender.Encrypt(plaintext, aad)
XaEncrypt ==
    /\ xaSent = << >>
    /\ \E m \in MessageSet :
          XaSentBy(m, XChaCha20Poly1305Encrypt(xaSender, m.plaintext, m.aad))
    /\ UNCHANGED <<xaArgs, xaReceiver, xaGot, chaVars, aeadVars, polyVars,
                   raceVars, memVars, xVars, qrVars, layoutVars, reuseVars>>

XaGotBy(t, in, d) ==
    /\ xaReceiver' = d.aead
    /\ xaGot' = <<[tamper |-> t, ciphertext |-> in.ciphertext,
                   aad |-> in.aad, tag |-> in.tag,
                   plaintext |-> d.plaintext, err |-> d.err,
                   used |-> d.used]>>

XaReceive(t, in) ==
    XaGotBy(t, in,
        XChaCha20Poly1305Decrypt(xaReceiver, in.ciphertext, in.aad, in.tag))

\* plaintext, err := xaReceiver.Decrypt(ciphertext, aad, tag)
XaDecrypt ==
    /\ xaSent # << >>
    /\ xaGot = << >>
    /\ \E t \in XaTampers(xaSent[1]) : XaReceive(t, Tampered(xaSent[1], t))
    /\ UNCHANGED <<xaArgs, xaSender, xaSent, chaVars, aeadVars, polyVars,
                   raceVars, memVars, xVars, qrVars, layoutVars, reuseVars>>

XAeadNext == XaEncrypt \/ XaDecrypt

XAeadSpec == XAeadInit /\ [][XAeadNext]_vars

----------------------------------------------------------------------------
(* QrSpec: a state of 16 words and quarterRound calls on it.                *)

\* The state of the test of RFC 8439 2.2.1.
QrTestState ==
    <<W(34709, 12768), W(50668, 62333), W(20836, 25009), W(51622, 12170),
     W(17602, 3827), W(13200, 44927), W(55804, 26891), W(10847, 29004),
     W(21303, 10087), W(45066, 22065), W(38732, 21530), W(13726, 39267),
     W(23703, 4193), W(15715, 5769), W(8344, 55766), W(37339, 54048)>>

\* The words of the test of RFC 8439 2.1.1 in words 0..3, 2^32-1 elsewhere.
QrTestWords ==
    <<W(4369, 4369), W(258, 772), W(39821, 28483), W(291, 17767)>>

QrStates ==
    {QrTestState,
     QrTestWords \o [i \in 1..12 |-> W(65535, 65535)],
     [i \in 1..16 |-> W(i - 1, 65536 - i)]}

\* The index groups quarterRound is called with: those of the column and
\* diagonal rounds, and the first row.
QrGroups ==
    {<<0, 4, 8, 12>>, <<1, 5, 9, 13>>, <<2, 6, 10, 14>>, <<3, 7, 11, 15>>,
     <<0, 5, 10, 15>>, <<1, 6, 11, 12>>, <<2, 7, 8, 13>>, <<3, 4, 9, 14>>,
     <<0, 1, 2, 3>>}

QrInit ==
    /\ qrState \in QrStates
    /\ qrSteps = 0
    /\ qrLast = [before |-> qrState, group |-> << >>]
    /\ ChaIdle
    /\ AeadIdle
    /\ PolyIdle
    /\ RaceIdle
    /\ MemIdle
    /\ XIdle
    /\ XaIdle
    /\ LayoutIdle
    /\ ReuseIdle

\* s.quarterRound(x, y, z, w)
QrQuarterRound ==
    /\ qrSteps < MaxQuarterRounds
    /\ \E g \in QrGroups :
          /\ qrState' = quarterRound(qrState, g[1], g[2], g[3], g[4])
          /\ qrLast' = [before |-> qrState, group |-> g]
    /\ qrSteps' = qrSteps + 1
    /\ UNCHANGED <<chaVars, aeadVars, polyVars, raceVars, memVars, xVars,
                   xaVars, layoutVars, reuseVars>>

QrNext == QrQuarterRound

QrSpec == QrInit /\ [][QrNext]_vars

----------------------------------------------------------------------------
(* LayoutSpec: generatePoly1305Input called once, with an aad and a         *)
(* ciphertext of one byte value each and of lengths from 0 to beyond 2^32.  *)

\* 0, 1, 15, 16, 17, 2^32 - 1, 2^32 and 2^32 + 5.
LayoutLengths ==
    {<< >>, <<1>>, <<15>>, <<16>>, <<17>>, <<255, 255, 255, 255>>,
     <<0, 0, 0, 0, 1>>, <<5, 0, 0, 0, 1>>}

\* Slices of one run, or of none.
LayoutSlices ==
    {IF n = << >> THEN << >> ELSE <<Run(b, n)>> :
        n \in LayoutLengths, b \in {0, 171}}

LayoutInit ==
    /\ layoutArgs \in [aad : LayoutSlices, ciphertext : LayoutSlices]
    /\ layoutOut = << >>
    /\ ChaIdle
    /\ AeadIdle
    /\ PolyIdle
    /\ RaceIdle
    /\ MemIdle
    /\ XIdle
    /\ XaIdle
    /\ QrIdle
    /\ ReuseIdle

\* poly1305Input := generatePoly1305Input(aad, ciphertext)
LayoutGenerate ==
    /\ layoutOut = << >>
    /\ layoutOut' = <<generatePoly1305InputRuns(layoutArgs.aad,
                                                layoutArgs.ciphertext)>>
    /\ UNCHANGED <<layoutArgs, chaVars, aeadVars, polyVars, raceVars,
                   memVars, xVars, xaVars, qrVars, reuseVars>>

LayoutNext == LayoutGenerate

LayoutSpec == LayoutInit /\ [][LayoutNext]_vars

----------------------------------------------------------------------------
(* ReuseSpec: one ChaCha20Poly1305 instance and a sequence of Encrypt and   *)
(* Decrypt calls made on it.  What it is given to decrypt is what it        *)
(* returned itself, what a fresh instance with the same key and nonce       *)
(* returns (as it is, or with a bit of the tag flipped), or what an         *)
(* instance in the same state as itself returns (a peer that made the       *)
(* same calls).  Plaintexts of 2^31 and of 2^32 - 1 ChaCha20 blocks are     *)
(* encrypted too; for those the model keeps what the calls leave in the     *)
(* stream cipher and nothing of the bytes.                                  *)

\* numBlocks := int(math.Ceil(float64(len(data)) / BlockSize)) for
\* len(data) = n, n and the result in base-256 digits.
NumBlocksOfLen(n) ==
    LET m == BigAdd(n, <<63>>)
    IN  Normalize([i \in 1..Len(m) |->
                      (m[i] \div 64) + ((Digit(m, i + 1) % 64) * 4)])

\* uint32(n)
Uint32OfLen(n) == LittleEndianUint32([i \in 1..4 |-> Digit(n, i)], 0)

\* The instance XORWithKeyStream's loop leaves after numBlocks passes:
\* each pass is one CreateBlock, which adds 1 to the counter in uint32, so
\* the last pass runs with counter + numBlocks - 1 and leaves its block in
\* the state field.
XorLoopLeaves(c, numBlocks) ==
    IF numBlocks = << >> THEN c
    ELSE CreateBlock([c EXCEPT !.counter =
             Add32(@, Uint32OfLen(BigSub(numBlocks, <<1>>)))])

\* The accumulator after a message whose bytes the model does not hold.
NotComputed == <<-1>>

\* Encrypt(plaintext, aad) for len(plaintext) = n: the instance afterwards.
EncryptLong(c, n) ==
    [c EXCEPT !.chacha20 = XorLoopLeaves(@, NumBlocksOfLen(n)),
              !.poly1305.accum = NotComputed]

\* Both empty, both short, one byte over a ChaCha20 block.
ReuseMessages ==
    {m \in MessageSet :
        <<Len(m.plaintext), Len(m.aad)>> \in {<<0, 0>>, <<5, 3>>, <<65, 0>>}}

\* What Encrypt returned for m, as a message to decrypt.
SentBy(m, e) == [ciphertext |-> e.ciphertext, aad |-> m.aad, tag |-> e.tag]

\* The messages the instance is given to decrypt: what a fresh instance
\* and an instance in its own state return from Encrypt, what the fresh
\* one returns with the first bit of the tag flipped, and what its own
\* Encrypt returned when that was the call before.
ReuseInputs ==
    {SentBy(m, Encrypt(c, m.plaintext, m.aad)) :
        c \in {NewChaCha20Poly1305(reuseArgs.key, reuseArgs.nonce), reuse},
        m \in ReuseMessages}
    \cup {[in EXCEPT !.tag = FlipBit(@, 1, 0)] :
             in \in {SentBy(m, Encrypt(c, m.plaintext, m.aad)) :
                        c \in {NewChaCha20Poly1305(reuseArgs.key,
                                                   reuseArgs.nonce)},
                        m \in ReuseMessages}}
    \cup {[ciphertext |-> reuseLog[i].ciphertext, aad |-> reuseLog[i].aad,
           tag |-> reuseLog[i].tag] :
             i \in {j \in {Len(reuseLog)} :
                       j > 0 /\ reuseLog[j].op = "Encrypt"
                             /\ ~reuseLog[j].long}}

\* The accumulator is one the model computed.
ReuseComputed == reuse.poly1305.accum # NotComputed

ReuseInit ==
    /\ reuseArgs \in [key : KeySet, nonce : NonceSet]
    /\ reuse = NewChaCha20Poly1305(reuseArgs.key, reuseArgs.nonce)
    /\ reuseLog = << >>
    /\ ChaIdle
    /\ AeadIdle
    /\ PolyIdle
    /\ RaceIdle
    /\ MemIdle
    /\ XIdle
    /\ XaIdle
    /\ QrIdle
    /\ LayoutIdle

\* The call recorded, e being what Encrypt returned (d what Decrypt did).
ReuseEncrypted(m, e) ==
    /\ reuse' = e.aead
    /\ reuseLog' = Append(reuseLog,
           [op |-> "Encrypt", long |-> FALSE, plaintext |-> m.plaintext,
            aad |-> m.aad, ciphertext |-> e.ciphertext, tag |-> e.tag,
            err |-> Nil, before |-> reuse])

\* ciphertext, tag := reuse.Encrypt(plaintext, aad)
ReuseEncrypt ==
    /\ Len(reuseLog) < MaxCalls
    /\ ReuseComputed
    /\ \E m \in ReuseMessages :
           ReuseEncrypted(m, Encrypt(reuse, m.plaintext, m.aad))
    /\ UNCHANGED <<reuseArgs, chaVars, aeadVars, polyVars, raceVars,
                   memVars, xVars, xaVars, qrVars, layoutVars>>

ReuseDecrypted(in, d) ==
    /\ reuse' = d.aead
    /\ reuseLog' = Append(reuseLog,
           [op |-> "Decrypt", long |-> FALSE, plaintext |-> d.plaintext,
            aad |-> in.aad, ciphertext |-> in.ciphertext, tag |-> in.tag,
            err |-> d.err, before |-> reuse])

\* plaintext, err := reuse.Decrypt(ciphertext, aad, tag)
ReuseDecrypt ==
    /\ Len(reuseLog) < MaxCalls
    /\ ReuseComputed
    /\ \E in \in ReuseInputs :
           ReuseDecrypted(in, Decrypt(reuse, in.ciphertext, in.aad, in.tag))
    /\ UNCHANGED <<reuseArgs, chaVars, aeadVars, polyVars, raceVars,
                   memVars, xVars, xaVars, qrVars, layoutVars>>

\* ciphertext, tag := reuse.Encrypt(plaintext, nil), the plaintext of
\* 2^37 bytes (2^31 blocks) or of 2^38 - 127 bytes (2^32 - 1 blocks).
ReuseEncryptLong ==
    /\ Len(reuseLog) < MaxCalls
    /\ \E n \in {<<0, 0, 0, 0, 32>>, <<129, 255, 255, 255, 63>>} :
           /\ reuse' = EncryptLong(reuse, n)
           /\ reuseLog' = Append(reuseLog,
                  [op |-> "Encrypt", long |-> TRUE, len |-> n, err |-> Nil,
                   before |-> reuse])
    /\ UNCHANGED <<reuseArgs, chaVars, aeadVars, polyVars, raceVars,
                   memVars, xVars, xaVars, qrVars, layoutVars>>

ReuseNext == ReuseEncrypt \/ ReuseDecrypt \/ ReuseEncryptLong

ReuseSpec == ReuseInit /\ [][ReuseNext]_vars

----------------------------------------------------------------------------
(* The ChaCha operations of RFC 8439 on words written as 32 bits, least     *)
(* significant first, for the properties to compare the model with.         *)

Bit(n, i) == (n \div (2 ^ i)) % 2

\* The bits of a word of the model.
BitsOf(word) ==
    [i \in 1..32 |-> IF i <= 16 THEN Bit(Lo(word), i - 1)
                     ELSE Bit(Hi(word), i - 17)]

\* The bits of the little-endian word at bytes[i..i+3].
BitsOfBytes(bytes, i) ==
    [j \in 1..32 |-> Bit(bytes[i + ((j - 1) \div 8)], (j - 1) % 8)]

\* Byte k (from 0) of a word given as bits.
ByteOfBits(bits, k) ==
    bits[(8 * k) + 1] + (2 * bits[(8 * k) + 2]) + (4 * bits[(8 * k) + 3])
        + (8 * bits[(8 * k) + 4]) + (16 * bits[(8 * k) + 5])
        + (32 * bits[(8 * k) + 6]) + (64 * bits[(8 * k) + 7])
        + (128 * bits[(8 * k) + 8])

\* The bytes of words given as bits, each word little-endian.
BytesOfBits(words) ==
    [j \in 1..(4 * Len(words)) |->
        ByteOfBits(words[((j - 1) \div 4) + 1], (j - 1) % 4)]

\* The number whose 16 bits are a[from], a[from + 1], ...
BitNum(a, from) ==
    a[from] + (2 * (a[from + 1] + (2 * (a[from + 2] + (2 * (a[from + 3]
     + (2 * (a[from + 4] + (2 * (a[from + 5] + (2 * (a[from + 6]
     + (2 * (a[from + 7] + (2 * (a[from + 8] + (2 * (a[from + 9]
     + (2 * (a[from + 10] + (2 * (a[from + 11] + (2 * (a[from + 12]
     + (2 * (a[from + 13] + (2 * (a[from + 14] + (2 * a[from + 15])
     ))))))))))))))))))))))))))))

\* The bits of the sum whose lower 16 bits add up to lo and whose upper 16
\* bits add up to hi: the carry of lo goes into hi, that of hi is dropped.
BitSumFn[lo \in Nat, hi \in Nat] ==
    [i \in 1..32 |-> IF i <= 16 THEN Bit(lo, i - 1)
                     ELSE Bit(hi + (lo \div 65536), i - 17)]

\* a + b mod 2^32
BitAdd(a, b) ==
    BitSumFn[BitNum(a, 1) + BitNum(b, 1), BitNum(a, 17) + BitNum(b, 17)]

BitXor(a, b) == [i \in 1..32 |-> (a[i] + b[i]) % 2]

\* a <<< n
BitRotl(a, n) == [i \in 1..32 |-> a[((i - 1 - n + 32) % 32) + 1]]

\* RFC 8439 2.1 on q = <<a, b, c, d>>, one line of it at a time:
\* q[x] += q[y]; q[z] ^= q[x]; q[z] <<<= n.
BitQrSetFn[q \in Seq(Seq({0, 1})), x \in 1..4, z \in 1..4, n \in Nat,
           sum \in Seq({0, 1})] ==
    [q EXCEPT ![x] = sum, ![z] = BitRotl(BitXor(q[z], sum), n)]

BitQrLineFn[q \in Seq(Seq({0, 1})), x \in 1..4, y \in 1..4, z \in 1..4,
            n \in Nat] ==
    BitQrSetFn[q, x, z, n, BitAdd(q[x], q[y])]

BitQuarterRoundFn[q \in Seq(Seq({0, 1}))] ==
    BitQrLineFn[
        BitQrLineFn[
            BitQrLineFn[BitQrLineFn[q, 1, 2, 4, 16], 3, 4, 2, 12],
            1, 2, 4, 8],
        3, 4, 2, 7]

\* RFC 8439 2.2: QUARTERROUND(x, y, z, w) on a state of 16 words, the
\* indices counted from 0.
BitQrPlacedFn[state \in Seq(Seq({0, 1})), g \in Seq(Nat),
              q \in Seq(Seq({0, 1}))] ==
    [state EXCEPT ![g[1] + 1] = q[1], ![g[2] + 1] = q[2],
                  ![g[3] + 1] = q[3], ![g[4] + 1] = q[4]]

BitQuarterRoundAt[state \in Seq(Seq({0, 1})), g \in Seq(Nat)] ==
    BitQrPlacedFn[state, g,
        BitQuarterRoundFn[<<state[g[1] + 1], state[g[2] + 1],
                            state[g[3] + 1], state[g[4] + 1]>>]]

BitQuarterRound(state, x, y, z, w) == BitQuarterRoundAt[state, <<x, y, z, w>>]

\* RFC 8439 2.3: the index groups of one double round, in order.
QuarterRoundGroups ==
    <<<<0, 4, 8, 12>>, <<1, 5, 9, 13>>, <<2, 6, 10, 14>>, <<3, 7, 11, 15>>,
      <<0, 5, 10, 15>>, <<1, 6, 11, 12>>, <<2, 7, 8, 13>>, <<3, 4, 9, 14>>>>

\* n quarter rounds, going through the groups again and again from group g.
BitPermuteFn[state \in Seq(Seq({0, 1})), g \in 1..8, n \in Nat] ==
    IF n = 0 THEN state
    ELSE BitPermuteFn[BitQuarterRoundAt[state, QuarterRoundGroups[g]],
                      (g % 8) + 1, n - 1]

\* 10 double rounds.
BitPermutation(state) == BitPermuteFn[state, 1, 80]

\* "expand 32-byte k"
SigmaBytes ==
    <<101, 120, 112, 97, 110, 100, 32, 51, 50, 45, 98, 121, 116, 101, 32,
      107>>

\* The words of a byte string, each little-endian, as bits.
BitWords(bytes) ==
    [i \in 1..(Len(bytes) \div 4) |-> BitsOfBytes(bytes, (4 * (i - 1)) + 1)]

----------------------------------------------------------------------------
(* Properties of ChaSpec.                                                  *)

\* a < b on uint32.
Lt32(a, b) == Hi(a) < Hi(b) \/ (Hi(a) = Hi(b) /\ Lo(a) < Lo(b))

\* The 64 bytes of a block: its words one after the other, each
\* little-endian.
Serialize(block) ==
    [j \in 1..64 |-> ByteOf(block[((j - 1) \div 4) + 1], (j - 1) % 4)]

\* The first block of a fresh instance made with the given counter.
KeystreamBlock(key, nonce, counter) ==
    CreateBlock(NewChaCha20(key, nonce, WordBytes(counter))).state

\* C5: when producing key stream takes the counter past 2^32-1 (the counter
\* after a call is below the counter before it), the call returns a
\* counter overflow error.
C5_CounterOverflowSurfaced ==
    Lt32(cha.counter, chaLast.before) => chaLast.err = "counter overflow"

\* C6: what XORWithKeyStream returned for data, run through
\* XORWithKeyStream on a fresh instance with the same key, nonce and
\* counter, is data again.
C6_XorRoundTrip ==
    echo # << >> => echo[1] = chaLast.data

C6_Witness ==
    /\ echo # << >>
    /\ chaCalls = 1
    /\ Len(chaLast.data) = 130
    /\ chaLast.out # chaLast.data
    /\ echo[1] = chaLast.data

\* r is a + n, the sum not passing 2^32-1.
Plus32(a, n, r) == r = Add32(a, U32(n)) /\ (n = 0 \/ Lt32(a, r))

\* C7: XORWithKeyStream on n bytes with the counter at c returns n bytes,
\* byte j being data[j] XOR byte (j mod 64) of the serialised block of
\* counter c + floor(j/64); it produces ceil(n/64) blocks and leaves the
\* counter at c + ceil(n/64).
C7_XorKeystream ==
    chaLast.op = "XORWithKeyStream" =>
        LET n == Len(chaLast.data)
            nb == (n + 63) \div 64
        IN  /\ Len(chaLast.out) = n
            /\ Len(chaLast.used) = nb
            /\ \A k \in 0..(nb - 1) :
                LET ks == Serialize(KeystreamBlock(chaArgs.key, chaArgs.nonce,
                                        chaLast.used[k + 1]))
                IN  /\ Plus32(chaLast.before, k, chaLast.used[k + 1])
                    /\ \A j \in (64 * k)..Min((64 * k) + 63, n - 1) :
                           chaLast.out[j + 1] =
                               XorByte(chaLast.data[j + 1], ks[(j % 64) + 1])
            /\ Plus32(chaLast.before, nb, cha.counter)

\* C8: the block CreateBlock returns is the first block of a fresh
\* instance with the same key, nonce and counter, whatever was called
\* before; the k-th block an instance produces is that of counter
\* c + k - 1, and the call raises the counter by one.
C8_BlockPureFunction ==
    chaLast.op = "CreateBlock" =>
        /\ chaLast.block =
               KeystreamBlock(chaArgs.key, chaArgs.nonce, chaLast.before)
        /\ Plus32(LittleEndianUint32(chaArgs.counter, 0), chaProduced - 1,
                  chaLast.before)
        /\ Plus32(chaLast.before, 1, cha.counter)

----------------------------------------------------------------------------
(* Properties of AeadSpec.                                                  *)

\* C1: decrypting, on a fresh instance made from the same key and nonce,
\* exactly what Encrypt returned, with the same aad, gives back the
\* plaintext and no error; the ciphertext is as long as the plaintext.
C1_AeadRoundTrip ==
    /\ sent # << >> => Len(sent[1].ciphertext) = Len(sent[1].plaintext)
    /\ (got # << >> /\ got[1].tamper[1] = "none") =>
           /\ got[1].err = Nil
           /\ got[1].plaintext = sent[1].plaintext

C1_Witness ==
    /\ got # << >>
    /\ got[1].tamper[1] = "none"
    /\ Len(sent[1].plaintext) = 65
    /\ sent[1].ciphertext # sent[1].plaintext
    /\ got[1].ciphertext = sent[1].ciphertext
    /\ got[1].plaintext = sent[1].plaintext

\* C2: when one bit of the ciphertext, of the aad or of the tag differs
\* from what Encrypt produced, Decrypt returns ErrInvalidTag and no
\* plaintext.
C2_TamperDetected ==
    (got # << >> /\ got[1].tamper[1] # "none") =>
        /\ got[1].err = ErrInvalidTag
        /\ got[1].plaintext = << >>

C2_Witness ==
    /\ got # << >>
    /\ got[1].tamper[1] = "aad"
    /\ got[1].aad # sent[1].aad
    /\ Len(sent[1].plaintext) = 17
    /\ got[1].err = ErrInvalidTag

\* C3: Decrypt computes the tag over (aad, ciphertext) first and accepts
\* only when all 16 bytes equal the tag it was given; a Decrypt that
\* rejects returns an empty plaintext, has produced no key stream block and
\* leaves the ChaCha20 instance (counter and state) as it was.
C3_VerifyBeforeDecrypt ==
    got # << >> =>
        /\ got[1].computedTag =
               GenerateTag(got[1].before.poly1305,
                   generatePoly1305Input(got[1].aad, got[1].ciphertext)).tag
        /\ got[1].err = Nil <=>
               \A i \in 1..16 : got[1].tag[i] = got[1].computedTag[i]
        /\ got[1].err # Nil =>
               /\ got[1].err = ErrInvalidTag
               /\ got[1].plaintext = << >>
               /\ got[1].used = << >>
               /\ receiver.chacha20 = got[1].before.chacha20

C3_Witness ==
    /\ got # << >>
    /\ got[1].tamper = <<"tag", 16, 7>>
    /\ Len(got[1].ciphertext) = 65
    /\ got[1].err = ErrInvalidTag
    /\ got[1].plaintext = << >>
    /\ receiver.chacha20.counter = U32(1)

\* The Poly1305 key NewChaCha20Poly1305 must derive: bytes 0..31 of the
\* ChaCha20 block of (key, nonce, counter 0).
PolyKeyOf(key, nonce) ==
    SubSeq(Serialize(KeystreamBlock(key, nonce, U32(0))), 1, 32)

SameKey(p, fresh) == p.r = fresh.r /\ p.s = fresh.s

----------------------------------------------------------------------------
(* Properties of PolySpec.                                                  *)

\* The blocks of every message of log, in order: each message is cut into
\* 16-byte blocks on its own, its last block holding what is left.
RECURSIVE AllBlocks(_)
AllBlocks(log) ==
    IF log = << >> THEN << >>
    ELSE LET m == Head(log)
         IN  [i \in 1..((Len(m) + 15) \div 16) |->
                 SubSeq(m, (16 * (i - 1)) + 1, Min(16 * i, Len(m)))]
             \o AllBlocks(Tail(log))

\* The accumulator that absorbs the blocks from zero: for each block,
\* A := ((A + block as a little-endian number + 2^(8 * its length)) * r)
\* mod P.
Absorbed(r, blocks) ==
    LET Loop[a \in Seq(Nat), i \in Nat] ==
            IF i > Len(blocks) THEN a
            ELSE Loop[BigModP(BigMul(
                          BigAdd(a, Normalize(Append(blocks[i], 1))), r)),
                      i + 1]
    IN  Loop[<< >>, 1]

\* The low 128 bits of x as 16 little-endian bytes.
Low128(x) == [i \in 1..16 |-> Digit(x, i)]

\* C10: the tag GenerateTag returns is the low 128 bits of A + s, A being
\* the accumulator that absorbed from zero the blocks of every message the
\* instance was given so far, the earlier calls' included; the instance
\* keeps A.
C10_AccumulatorPersists ==
    polyLog # << >> =>
        /\ poly.accum = Absorbed(poly.r, AllBlocks(polyLog))
        /\ polyTag = Low128(BigAdd(poly.accum, poly.s))

\* The second call returns another tag than a fresh instance gives for
\* its message.
C10_Witness ==
    /\ Len(polyLog) = 2
    /\ Len(polyLog[1]) = 17
    /\ Len(polyLog[2]) = 33
    /\ polyTag # GenerateTag(NewPoly1305(polyKey), polyLog[2]).tag

\* Bit k of byte j (both from 0) of r is one that clamping clears.
Cleared(j, k) ==
    \/ j \in {3, 7, 11, 15} /\ k >= 4
    \/ j \in {4, 8, 12} /\ k <= 1

\* C16: r is the little-endian number of key[0:16] with the top 4 bits of
\* bytes 3, 7, 11, 15 and the bottom 2 bits of bytes 4, 8, 12 cleared and
\* every other bit kept, s the little-endian number of key[16:32], and the
\* accumulator of an instance not yet used is 0.
C16_NewPoly1305 ==
    /\ Len(poly.r) <= 16
    /\ Len(poly.s) <= 16
    /\ \A j \in 0..15 : \A k \in 0..7 :
          Bit(Digit(poly.r, j + 1), k) =
              (IF Cleared(j, k) THEN 0 ELSE Bit(polyKey[j + 1], k))
    /\ \A j \in 0..15 : Digit(poly.s, j + 1) = polyKey[j + 17]
    /\ polyLog = << >> => poly.accum = << >>

\* A fresh instance of the key ff .. ff: r is 0ffffffc0ffffffc0ffffffc0fffffff,
\* s is 2^128 - 1.
C16_Witness ==
    /\ polyLog = << >>
    /\ polyKey = [i \in 1..32 |-> 255]
    /\ poly.r = <<255, 255, 255, 15, 252, 255, 255, 15, 252, 255, 255, 15,
                  252, 255, 255, 15>>
    /\ poly.s = [i \in 1..16 |-> 255]
    /\ poly.accum = << >>

\* The blocks of a message: 16 bytes each, the last one what is left.
BlocksOf(m) ==
    [i \in 1..((Len(m) \div 16) + (IF Len(m) % 16 = 0 THEN 0 ELSE 1)) |->
        [j \in 1..(IF 16 * i <= Len(m) THEN 16 ELSE Len(m) % 16) |->
            m[(16 * (i - 1)) + j]]]

\* 2^(8 * n)
Pow256(n) == [i \in 1..(n + 1) |-> IF i = n + 1 THEN 1 ELSE 0]

\* The value of a block: its little-endian number and, when padded, 2^128,
\* otherwise 2^(8 * its length).
BlockValue(block, padded) ==
    BigAdd(Normalize(block), Pow256(IF padded THEN 16 ELSE Len(block)))

\* The digits of the number whose i-th base-256 column holds cols[i].
ColumnsFn[cols \in Seq(Nat), i \in Nat, carry \in Nat, acc \in Seq(Nat)] ==
    IF i > Len(cols)
    THEN IF carry = 0 THEN acc
         ELSE ColumnsFn[cols, i, carry \div 256, Append(acc, carry % 256)]
    ELSE ColumnsFn[cols, i + 1, (cols[i] + carry) \div 256,
                   Append(acc, (cols[i] + carry) % 256)]

\* a + b, and a * k for a small k.
Sum(a, b) ==
    Normalize(ColumnsFn[[i \in 1..Max(Len(a), Len(b)) |->
                            Digit(a, i) + Digit(b, i)], 1, 0, << >>])

Scaled(a, k) ==
    Normalize(ColumnsFn[[i \in 1..Len(a) |-> a[i] * k], 1, 0, << >>])

\* q * 2^130
Times2To130(q) == IF q = << >> THEN << >> ELSE Zeros(16) \o Scaled(q, 4)

\* x = q * (2^130 - 5) + a, written without the subtraction.
Divides(x, q, a) == Sum(x, Scaled(q, 5)) = Sum(Times2To130(q), a)

\* a = x mod (2^130 - 5), for x below 2^260, where the quotient is
\* x / 2^130 or one more.
IsRemainder(x, a) ==
    /\ ~BigGe(a, P)
    /\ \/ Divides(x, High130(x), a)
       \/ Divides(x, Sum(High130(x), <<1>>), a)

\* The accumulators GenerateTag goes through from a on, a first.
Accumulators(a, r, blocks) ==
    LET Loop[acc \in Seq(Seq(Nat)), i \in Nat] ==
            IF i > Len(blocks) THEN acc
            ELSE Loop[Append(acc, PolyAbsorb(acc[Len(acc)], r, blocks[i])),
                      i + 1]
    IN  Loop[<<a>>, 1]

C17_Accumulated(accs, blocks) ==
    /\ accs[1] = << >>
    /\ \A i \in 1..Len(blocks) :
          IsRemainder(BigMul(BigAdd(accs[i], BlockValue(blocks[i], FALSE)),
                             poly.r),
                      accs[i + 1])
    /\ poly.accum = accs[Len(accs)]
    /\ \A i \in 1..16 : polyTag[i] = Digit(Sum(poly.accum, poly.s), i)

\* C17: the first GenerateTag of an instance takes the message in blocks of
\* 16 bytes, the last one shorter when the length is no multiple of 16, none
\* for the empty message; it goes from accumulator 0 through
\* ((accumulator + block value) * r) mod (2^130 - 5) once per block, every
\* accumulator being below 2^130 - 5, and returns the 16 low bytes of
\* accumulator + s, least significant first, zero where the sum has none.
C17_GenerateTag ==
    Len(polyLog) = 1 =>
        /\ Len(polyTag) = 16
        /\ Len(BlocksOf(polyLog[1])) = (Len(polyLog[1]) + 15) \div 16
        /\ C17_Accumulated(Accumulators(<< >>, poly.r, BlocksOf(polyLog[1])),
                           BlocksOf(polyLog[1]))

\* The first call was given no byte and returned s = 9 in 16 bytes.
C17_Witness ==
    /\ Len(polyLog) = 1
    /\ polyLog[1] = << >>
    /\ poly.s = <<9>>
    /\ polyTag = <<9>> \o [i \in 1..15 |-> 0]

\* The accumulator that absorbs the blocks from 0, a block being valued as
\* BlockValue says.
AbsorbedAs(r, blocks, padded) ==
    LET Loop[a \in Seq(Nat), i \in Nat] ==
            IF i > Len(blocks) THEN a
            ELSE Loop[BigModP(BigMul(
                          BigAdd(a, BlockValue(blocks[i], padded)), r)),
                      i + 1]
    IN  Loop[<< >>, 1]

\* C18 as stated: every block, the short last one too, is valued as the
\* little-endian number of its bytes plus 2^128.
C18_Plus2To128 ==
    Len(polyLog) = 1 =>
        poly.accum = AbsorbedAs(poly.r, BlocksOf(polyLog[1]), TRUE)

\* C18: a block of n bytes is valued as the little-endian number of its
\* bytes plus 2^(8 * n): 2^128 for a block of 16 bytes, the byte 1 right
\* behind its last byte for a shorter one.
C18_BlockValue ==
    Len(polyLog) = 1 =>
        poly.accum = AbsorbedAs(poly.r, BlocksOf(polyLog[1]), FALSE)

\* A message of 17 bytes was given: a block of 16 bytes and one of 1 byte,
\* which valued with 2^128 would leave another accumulator.
C18_Witness ==
    /\ Len(polyLog) = 1
    /\ Len(polyLog[1]) = 17
    /\ poly.accum # AbsorbedAs(poly.r, BlocksOf(polyLog[1]), TRUE)
    /\ BlockValue(BlocksOf(polyLog[1])[2], FALSE)
          = <<polyLog[1][17], 1>>

----------------------------------------------------------------------------
(* Properties of RaceSpec.                                                  *)

AllDone == \A g \in Goroutines : pc[g] = "done"

RaceCounter(k) == Add32(LittleEndianUint32(raceArgs.counter, 0), U32(k))

\* The blocks two CreateBlock calls made one after the other return.
SequentialBlocks ==
    {KeystreamBlock(raceArgs.key, raceArgs.nonce, RaceCounter(k)) : k \in {0, 1}}

\* C9: when the calls are serialised, every call returns the block of the
\* counter it found, the two calls find different counters, c and c + 1,
\* and leave the counter at c + 2.
C9_SerialisedCallsSafe ==
    sync =>
        /\ \A g \in Goroutines : pc[g] = "done" =>
               /\ local[g].ran \in {RaceCounter(0), RaceCounter(1)}
               /\ local[g].ret = KeystreamBlock(raceArgs.key, raceArgs.nonce,
                                                local[g].ran)
        /\ AllDone =>
               /\ local[1].ran # local[2].ran
               /\ shared.counter = RaceCounter(2)

\* Two unsynchronised calls have returned: one returned a block that no
\* sequential execution returns, and an increment of the counter is lost.
C9_Witness ==
    /\ ~sync
    /\ AllDone
    /\ \E g \in Goroutines : local[g].ret \notin SequentialBlocks
    /\ local[1].ran = local[2].ran
    /\ shared.counter = RaceCounter(1)

----------------------------------------------------------------------------
(* Properties of MemSpec.                                                   *)

MemText == MemRead(memArgs.arrays, memArgs.text)
MemAad == MemRead(memArgs.arrays, memArgs.aad)

\* What the call on the byte values returns.
MemSameAs(out, tag, err) ==
    /\ memLast.out = out
    /\ memLast.tag = tag
    /\ memLast.err = err

MemSameAsEncrypt(e) == MemSameAs(e.ciphertext, e.tag, Nil)
MemSameAsDecrypt(d) == MemSameAs(d.plaintext, d.computedTag, d.err)

MemValues ==
    CASE memLast.op = "XORWithKeyStream" ->
            MemSameAs(XORWithKeyStream(memArgs.chacha20, MemText).result,
                      << >>, Nil)
      [] memLast.op = "GenerateTag" ->
            MemSameAs(<< >>, GenerateTag(memArgs.poly1305, MemText).tag, Nil)
      [] memLast.op = "Encrypt" ->
            MemSameAsEncrypt(Encrypt(memArgs.aead, MemText, MemAad))
      [] memLast.op = "Decrypt" ->
            MemSameAsDecrypt(Decrypt(memArgs.aead, MemText, MemAad,
                                     memLast.given))

\* C11: after XORWithKeyStream, GenerateTag, Encrypt or Decrypt every byte
\* of the caller's arrays (the slices passed in and the capacity behind
\* them) is what it was, the slice returned shares no byte with them, and
\* it holds the result.
C11_BuffersNotMutated ==
    memLast.op # "none" =>
        /\ \A a \in 1..Len(memArgs.arrays) : mem[a] = memArgs.arrays[a]
        /\ memLast.slice.cap = 0 \/ memLast.slice.arr > Len(memArgs.arrays)
        /\ MemValues

\* Encrypt of 70 bytes with 16 bytes of aad, which padTo16Bytes returns
\* as they are, both slices being in one array.
C11_Witness ==
    /\ memLast.op = "Encrypt"
    /\ Len(memArgs.arrays) = 1
    /\ memArgs.aad.len = 16
    /\ memArgs.text.len = 70
    /\ memLast.slice.arr # 1
    /\ memLast.out # MemText
    /\ mem[1] = memArgs.arrays[1]

----------------------------------------------------------------------------
(* Properties of XSpec.                                                     *)

\* NewChaCha20(subkey, n12, counter) of the arguments xcha was made with.
DerivedChaCha20 ==
    NewChaCha20(
        GenerateSubKey(NewHChaCha20(xArgs.key, SubSeq(xArgs.nonce, 1, 16))),
        <<0, 0, 0, 0>> \o SubSeq(xArgs.nonce, 17, 24), xArgs.counter)

\* What the n-th call of XORWithKeyStream on c gives, the calls before it
\* having been given the data of log.
RECURSIVE NthCall(_, _, _)
NthCall(c, log, n) ==
    IF n = 1 THEN XORWithKeyStream(c, log[1].data)
    ELSE NthCall(XORWithKeyStream(c, log[1].data).cipher, Tail(log), n - 1)

\* C12: a XORWithKeyStream call on NewXChaCha20(key, nonce, counter)
\* returns what the same call after the same calls returns on
\* NewChaCha20(subkey, n12, counter), and the wrapped cipher (its counter
\* included) is that instance after the same calls.
C12_SameAs(r) ==
    /\ xLog[Len(xLog)].out = r.result
    /\ xcha.chacha20 = r.cipher

C12_XChaChaIsChaCha ==
    IF xLog = << >> THEN xcha.chacha20 = DerivedChaCha20
    ELSE C12_SameAs(NthCall(DerivedChaCha20, xLog, Len(xLog)))

\* Two calls, the second of 130 bytes, under a nonce with non-zero bytes in
\* both parts, on a cipher that is not the one the key and the last 12
\* bytes of the nonce give.
C12_Witness ==
    /\ Len(xLog) = 2
    /\ Len(xLog[2].data) = 130
    /\ xLog[2].out # xLog[2].data
    /\ xArgs.nonce[4] = 9
    /\ xArgs.nonce[24] = 8
    /\ xcha.chacha20.key # NewChaCha20(xArgs.key, SubSeq(xArgs.nonce, 13, 24),
                                       xArgs.counter).key

\* The HChaCha20 state of draft-irtf-cfrg-xchacha-03 2.2: constants, key,
\* 16-byte nonce.
HChaChaState(key, nonce) == BitWords(SigmaBytes \o key \o nonce)

\* Words 0..3 and 12..15 of a state, as bytes.
FirstAndLastRow(state) ==
    BytesOfBits(SubSeq(state, 1, 4) \o SubSeq(state, 13, 16))

\* 82413b42 27b27bfe d30e4250 8a877d73 a0f9e4d5 8a74a853 c12ec413 26d3ecdc
DraftSubKey ==
    <<130, 65, 59, 66, 39, 178, 123, 254, 211, 14, 66, 80, 138, 135, 125,
      115, 160, 249, 228, 213, 138, 116, 168, 83, 193, 46, 196, 19, 38, 211,
      236, 220>>

\* C20: GenerateSubKey of NewHChaCha20(key, nonce) returns words 0..3 and
\* 12..15, each little-endian, of the state (constants, key, nonce) after 10
\* double rounds with nothing added; for the key 00 .. 1f and the nonce
\* 00 00 00 09 00 00 00 4a 00 00 00 00 31 41 59 27 that is the subkey of the
\* draft's test vector.
C20_SubKey ==
    xLast.op = "GenerateSubKey" =>
        /\ xLast.out =
              FirstAndLastRow(
                  BitPermutation(HChaChaState(xArgs.key, xLast.nonce)))
        /\ (xArgs.key = [i \in 1..32 |-> i - 1] /\ xLast.nonce[4] = 9)
              => xLast.out = DraftSubKey

\* The subkey of the draft's test vector has been generated.
C20_Witness ==
    /\ xLast.op = "GenerateSubKey"
    /\ xArgs.key = [i \in 1..32 |-> i - 1]
    /\ xLast.nonce = <<0, 0, 0, 9, 0, 0, 0, 74, 0, 0, 0, 0, 49, 65, 89, 39>>
    /\ xLast.out = DraftSubKey

----------------------------------------------------------------------------
(* Properties of XAeadSpec.                                                 *)

\* A fresh ChaCha20Poly1305(subkey, n12) for the key and nonce the sender
\* and the receiver were made with.
DerivedAead ==
    NewChaCha20Poly1305(
        GenerateSubKey(NewHChaCha20(xaArgs.key, SubSeq(xaArgs.nonce, 1, 16))),
        <<0, 0, 0, 0>> \o SubSeq(xaArgs.nonce, 17, 24))

C13_SameEncrypt(e) ==
    /\ xaSent[1].ciphertext = e.ciphertext
    /\ xaSent[1].tag = e.tag
    /\ xaSent[1].used = e.used
    /\ xaSent[1].used # << >> => xaSent[1].used[1] = U32(1)

C13_SameDecrypt(d) ==
    /\ xaGot[1].plaintext = d.plaintext
    /\ xaGot[1].err = d.err
    /\ xaGot[1].used = d.used

\* C13: Encrypt of a fresh XChaCha20Poly1305(key, nonce) returns the
\* ciphertext and tag, and Decrypt the plaintext or ErrInvalidTag, that a
\* fresh ChaCha20Poly1305(subkey, n12) returns for the same arguments, the
\* key stream blocks used being the same, from counter 1 on, and none when
\* the tag is rejected.
C13_XAeadIsAead ==
    /\ xaSent # << >> =>
          C13_SameEncrypt(Encrypt(DerivedAead, xaSent[1].plaintext,
                                  xaSent[1].aad))
    /\ xaGot # << >> =>
          C13_SameDecrypt(Decrypt(DerivedAead, xaGot[1].ciphertext,
                                  xaGot[1].aad, xaGot[1].tag))

\* A message of 65 bytes was decrypted as sent, under the nonce that has
\* non-zero bytes in both parts.
C13_Witness ==
    /\ xaGot # << >>
    /\ xaGot[1].tamper[1] = "none"
    /\ xaGot[1].err = Nil
    /\ Len(xaGot[1].plaintext) = 65
    /\ xaGot[1].plaintext = xaSent[1].plaintext
    /\ xaGot[1].used = <<U32(1), U32(2)>>
    /\ xaArgs.nonce[24] = 8

----------------------------------------------------------------------------
(* Properties of QrSpec.                                                    *)

\* The four words the last call was to work on, before and after it.
QrWordsOf(state) ==
    [k \in 1..4 |-> state[qrLast.group[k] + 1]]

\* The result of the test of RFC 8439 2.1.1.
QrTestResult ==
    <<W(59946, 37620), W(51996, 63694), W(17793, 18222), W(22657, 50363)>>

\* The state the test of RFC 8439 2.2.1 expects.
QrTestStateAfter ==
    <<W(34709, 12768), W(50668, 62333), W(48568, 34524), W(51622, 12170),
     W(17602, 3827), W(13200, 44927), W(55804, 26891), W(53164, 45010),
     W(58475, 60032), W(45066, 22065), W(38732, 21530), W(13726, 39267),
     W(23703, 4193), W(52416, 31865), W(8344, 55766), W(37339, 54048)>>

\* The quarter round of the claim on words as bits.
QrQuartered(q) == BitQuarterRoundFn[[k \in 1..4 |-> BitsOf(q[k])]]

\* C14: after quarterRound(x, y, z, w) the words at x, y, z, w are the
\* quarter round of the words that were there, and the other twelve words
\* are what they were; (0x11111111, 0x01020304, 0x9b8d6f43, 0x01234567)
\* becomes (0xea2a92f4, 0xcb1cf8ce, 0x4581472e, 0x5881c4bb), and the state of
\* the test of RFC 8439 2.2.1 under (2, 7, 8, 13) the state it expects.
C14_QuarterRound ==
    qrSteps > 0 =>
        /\ \A i \in 0..15 :
              (\A k \in 1..4 : qrLast.group[k] # i)
                  => qrState[i + 1] = qrLast.before[i + 1]
        /\ [k \in 1..4 |-> BitsOf(QrWordsOf(qrState)[k])]
              = QrQuartered(QrWordsOf(qrLast.before))
        /\ QrWordsOf(qrLast.before) = QrTestWords
              => QrWordsOf(qrState) = QrTestResult
        /\ (qrLast.before = QrTestState /\ qrLast.group = <<2, 7, 8, 13>>)
              => qrState = QrTestStateAfter

\* The words of the test of RFC 8439 2.1.1 went through the quarter round,
\* the state around them being left as it was.
C14_Witness ==
    /\ qrSteps = 1
    /\ qrLast.group = <<0, 1, 2, 3>>
    /\ QrWordsOf(qrLast.before) = QrTestWords
    /\ QrWordsOf(qrState) = QrTestResult
    /\ qrState[16] = W(65535, 65535)

----------------------------------------------------------------------------
(* CreateBlock against RFC 8439 2.3.                                        *)

\* The initial state S: constants, key, counter, nonce.
BlockInitialState(key, counter, nonce) ==
    BitWords(SigmaBytes \o key) \o <<BitsOf(counter)>> \o BitWords(nonce)

\* s + p word by word.
BitFeedForwardFn[s \in Seq(Seq({0, 1})), p \in Seq(Seq({0, 1}))] ==
    [i \in 1..16 |-> BitAdd(s[i], p[i])]

\* S + P(S)
BlockOfState(S) == BitFeedForwardFn[S, BitPermutation(S)]

\* C15: the block CreateBlock returns is S + P(S) word by word modulo 2^32,
\* S being the constants 0x61707865, 0x3320646e, 0x79622d32, 0x6b206574, the
\* key, the counter the instance had and the nonce, and P the 10 double
\* rounds over the index groups of the column and diagonal rounds.
C15_CreateBlock ==
    chaLast.op = "CreateBlock" =>
        /\ [i \in 1..16 |-> BitsOf(chaLast.block[i])]
              = BlockOfState(BlockInitialState(chaArgs.key, chaLast.before,
                                               chaArgs.nonce))
        /\ BitWords(SigmaBytes)
              = <<BitsOf(W(24944, 30821)), BitsOf(W(13088, 25710)),
                  BitsOf(W(31074, 11570)), BitsOf(W(27424, 25972))>>

\* The second CreateBlock of an instance made with the key 00 .. 1f and
\* counter 1 has returned a block, the first having returned the block
\* that begins with the word 0xf3514f22.
C15_Witness ==
    /\ chaLast.op = "CreateBlock"
    /\ chaCalls = 2
    /\ chaProduced = 2
    /\ chaArgs.key = [i \in 1..32 |-> i - 1]
    /\ chaArgs.counter = <<1, 0, 0, 0>>
    /\ chaLast.before = U32(2)
    /\ KeystreamBlock(chaArgs.key, chaArgs.nonce, U32(1))[1] = W(62289, 20258)
    /\ chaLast.block # KeystreamBlock(chaArgs.key, chaArgs.nonce, U32(1))

----------------------------------------------------------------------------
(* Properties of LayoutSpec.                                                *)

\* The runs with the empty ones dropped and neighbours of one byte value
\* joined.
CanonFn[runs \in Seq([byte : Nat, count : Seq(Nat)]),
        acc \in Seq([byte : Nat, count : Seq(Nat)])] ==
    IF runs = << >> THEN acc
    ELSE IF runs[1].count = << >> THEN CanonFn[Tail(runs), acc]
    ELSE IF acc # << >> /\ acc[Len(acc)].byte = runs[1].byte
    THEN CanonFn[Tail(runs),
                 [acc EXCEPT ![Len(acc)].count = Sum(@, runs[1].count)]]
    ELSE CanonFn[Tail(runs), Append(acc, runs[1])]

Canon(runs) == CanonFn[runs, << >>]

\* (16 - n mod 16) mod 16 zero bytes.
ZeroPad(n) ==
    IF Digit(n, 1) % 16 = 0 THEN << >>
    ELSE <<Run(0, <<16 - (Digit(n, 1) % 16)>>)>>

\* n rounded up to a multiple of 16.
Ceil16(n) ==
    IF Digit(n, 1) % 16 = 0 THEN n ELSE Sum(n, <<16 - (Digit(n, 1) % 16)>>)

\* n as an 8-byte little-endian integer, byte by byte.
EightBytes(n) == [i \in 1..8 |-> Run(Digit(n, i), <<1>>)]

\* The bytes of runs of less than 256 bytes each.
RECURSIVE Expand(_)
Expand(runs) ==
    IF runs = << >> THEN << >>
    ELSE [i \in 1..Digit(runs[1].count, 1) |-> runs[1].byte]
            \o Expand(Tail(runs))

C19_Laid(aad, ciphertext, out) ==
    /\ Canon(out) =
          Canon(aad \o ZeroPad(LenRuns(aad)) \o ciphertext
                    \o ZeroPad(LenRuns(ciphertext))
                    \o EightBytes(LenRuns(aad))
                    \o EightBytes(LenRuns(ciphertext)))
    /\ Digit(LenRuns(out), 1) % 16 = 0
    /\ LenRuns(out) =
          Sum(Sum(Ceil16(LenRuns(aad)), Ceil16(LenRuns(ciphertext))), <<16>>)

\* C19: generatePoly1305Input(aad, ciphertext) returns aad, zero bytes up to
\* a multiple of 16 (none when it is one already), ciphertext, zero bytes
\* likewise, len(aad) as an 8-byte little-endian integer and len(ciphertext)
\* as an 8-byte little-endian integer, ceil16(len(aad)) +
\* ceil16(len(ciphertext)) + 16 bytes in all.
C19_InputLayout ==
    layoutOut # << >> =>
        C19_Laid(layoutArgs.aad, layoutArgs.ciphertext, layoutOut[1])

\* Below 2^32 bytes the layout is the claimed one, and up to 17 bytes the
\* runs are the bytes generatePoly1305Input returns for the bytes given.
LayoutBelow2To32 ==
    (/\ layoutOut # << >>
     /\ Len(LenRuns(layoutArgs.aad)) <= 4
     /\ Len(LenRuns(layoutArgs.ciphertext)) <= 4) =>
        /\ C19_Laid(layoutArgs.aad, layoutArgs.ciphertext, layoutOut[1])
        /\ (/\ Len(LenRuns(layoutArgs.aad)) <= 1
            /\ Len(LenRuns(layoutArgs.ciphertext)) <= 1) =>
              Expand(layoutOut[1]) =
                  generatePoly1305Input(Expand(layoutArgs.aad),
                                        Expand(layoutArgs.ciphertext))

----------------------------------------------------------------------------
(* Properties of ReuseSpec.                                                 *)

\* q = ceil(n / 64): 64 * q reaches n and 64 * (q - 1) does not.
IsCeil64(n, q) ==
    /\ BigGe(Scaled(q, 64), n)
    /\ q # << >> => ~BigGe(Scaled(BigSub(q, <<1>>), 64), n)

\* The number of bytes call e had to run through the stream cipher: those
\* of its plaintext, or of its ciphertext; none when Decrypt rejected.
StreamedLen(e) ==
    IF e.err # Nil THEN << >>
    ELSE IF e.long THEN e.len
    ELSE Normalize(<<Len(e.ciphertext) % 256, Len(e.ciphertext) \div 256>>)

\* The sum of ceil(len / 64) over every Encrypt and every accepted Decrypt
\* of log.
RECURSIVE StreamedBlocks(_)
StreamedBlocks(log) ==
    IF log = << >> THEN << >>
    ELSE Sum(CHOOSE q \in {NumBlocksOfLen(StreamedLen(Head(log)))} :
                 IsCeil64(StreamedLen(Head(log)), q),
             StreamedBlocks(Tail(log)))

\* What the tag of each call of log was computed over.
TagInputs(log) ==
    [i \in 1..Len(log) |->
        generatePoly1305Input(log[i].aad, log[i].ciphertext)]

\* What a fresh instance returns for the i-th call's arguments.
FreshCall(i) ==
    LET e == reuseLog[i]
        fresh == NewChaCha20Poly1305(reuseArgs.key, reuseArgs.nonce)
    IN  IF e.op = "Encrypt"
        THEN LET r == Encrypt(fresh, e.plaintext, e.aad)
             IN  <<r.ciphertext, r.tag>>
        ELSE LET r == Decrypt(fresh, e.ciphertext, e.aad, e.tag)
             IN  <<r.plaintext, r.err>>

\* What the i-th call returned.
Returned(i) ==
    IF reuseLog[i].op = "Encrypt"
    THEN <<reuseLog[i].ciphertext, reuseLog[i].tag>>
    ELSE <<reuseLog[i].plaintext, reuseLog[i].err>>

\* The counter as a number.
CounterValue(counter) == Normalize(WordBytes(counter))

\* The accumulator is the one that absorbed, from zero, the tag inputs of
\* every call so far, and the first call returned what a fresh instance
\* returns.
NeverResetPoly ==
    (reuseLog # << >> /\ ReuseComputed) =>
        /\ reuse.poly1305.accum =
               Absorbed(reuse.poly1305.r, AllBlocks(TagInputs(reuseLog)))
        /\ Returned(1) = FreshCall(1)

\* C21: Encrypt and Decrypt never reset the instance: after any sequence of
\* calls the stream cipher counter equals 1 plus the sum of ceil(len / 64)
\* over every Encrypt and every accepted Decrypt so far, and the Poly1305
\* accumulator is the one left by the most recent tag computation (that of
\* a rejected Decrypt included), which went on from the one before; the
\* first call returns what a fresh instance returns.
C21_NeverReset ==
    /\ CounterValue(reuse.chacha20.counter) =
           Sum(<<1>>, StreamedBlocks(reuseLog))
    /\ NeverResetPoly

\* The same while 1 plus the sum stays below 2^32.
NeverResetBelow2To32 ==
    BigGe(<<254, 255, 255, 255>>, StreamedBlocks(reuseLog)) => C21_NeverReset

\* A second Encrypt of the same 65 bytes returns another ciphertext and
\* another tag than the first, and leaves the counter at 5.
C21_Witness ==
    /\ Len(reuseLog) = 2
    /\ reuseLog[1].op = "Encrypt" /\ ~reuseLog[1].long
    /\ reuseLog[2].op = "Encrypt" /\ ~reuseLog[2].long
    /\ Len(reuseLog[1].plaintext) = 65
    /\ reuseLog[2].plaintext = reuseLog[1].plaintext
    /\ reuseLog[2].ciphertext # reuseLog[1].ciphertext
    /\ reuseLog[2].tag # reuseLog[1].tag
    /\ Returned(2) # FreshCall(2)
    /\ reuse.chacha20.counter = U32(5)

\* Decrypt of what the instance's own Encrypt just returned is rejected.
OwnOutputRejected ==
    /\ Len(reuseLog) = 2
    /\ reuseLog[1].op = "Encrypt" /\ ~reuseLog[1].long
    /\ Len(reuseLog[1].plaintext) = 65
    /\ reuseLog[2].op = "Decrypt"
    /\ reuseLog[2].ciphertext = reuseLog[1].ciphertext
    /\ reuseLog[2].aad = reuseLog[1].aad
    /\ reuseLog[2].tag = reuseLog[1].tag
    /\ reuseLog[2].err = ErrInvalidTag

\* A Decrypt that is not the first call is accepted and moves the counter
\* on from where the first call left it.
LaterDecryptAccepted ==
    /\ Len(reuseLog) = 2
    /\ reuseLog[1].op = "Encrypt" /\ ~reuseLog[1].long
    /\ Len(reuseLog[1].plaintext) = 65
    /\ reuseLog[2].op = "Decrypt"
    /\ reuseLog[2].err = Nil
    /\ Len(reuseLog[2].ciphertext) = 65
    /\ reuse.chacha20.counter = U32(5)

\* A call after the first returns something else than a fresh instance
\* returns for its arguments, unless it is a Decrypt that both reject.
LaterCallsDiffer ==
    ReuseComputed =>
        \A i \in 2..Len(reuseLog) :
            \/ Returned(i) # FreshCall(i)
            \/ /\ reuseLog[i].op = "Decrypt"
               /\ reuseLog[i].err = ErrInvalidTag
               /\ FreshCall(i)[2] = ErrInvalidTag

\* The first call is a Decrypt that is rejected, and the tag of the second
\* call went on from the accumulator it left.
RejectedDecryptCounts ==
    /\ Len(reuseLog) = 2
    /\ reuseLog[1].op = "Decrypt"
    /\ reuseLog[1].err = ErrInvalidTag
    /\ Len(reuseLog[1].ciphertext) = 65
    /\ reuseLog[2].op = "Encrypt" /\ ~reuseLog[2].long
    /\ reuse.chacha20.counter = U32(1)
    /\ reuseLog[1].before.poly1305.accum = << >>
    /\ reuseLog[2].before.poly1305.accum # << >>
    /\ Returned(2) # FreshCall(2)

\* A second call that returns what a fresh instance returns: a Decrypt
\* whose tag neither accepts.
LaterCallAsFresh ==
    /\ Len(reuseLog) = 2
    /\ ReuseComputed
    /\ reuseLog[1].op = "Encrypt"
    /\ reuseLog[2].op = "Decrypt"
    /\ Returned(2) = FreshCall(2)

\* What a call on the bytes leaves in the stream cipher is what the model
\* keeps of a call on a long plaintext of as many blocks.
LoopLeavesAsLoop ==
    \A i \in 1..Len(reuseLog) :
        (~reuseLog[i].long /\ reuseLog[i].err = Nil) =>
            LET after == IF i = Len(reuseLog) THEN reuse
                         ELSE reuseLog[i + 1].before
            IN  after.chacha20 =
                    XorLoopLeaves(reuseLog[i].before.chacha20,
                                  NumBlocksOfLen(StreamedLen(reuseLog[i])))

\* One Encrypt of 2^32 - 1 blocks on a fresh instance leaves the counter
\* at 0; 1 plus the sum is 2^32.
CounterWrapped ==
    /\ Len(reuseLog) = 1
    /\ reuseLog[1].long
    /\ reuseLog[1].before.chacha20.counter = U32(1)
    /\ StreamedBlocks(reuseLog) = <<255, 255, 255, 255>>
    /\ reuse.chacha20.counter = U32(0)

====
